---- MODULE Spec2Model ----
(***************************************************************************)
(* Model of the Ayurvedic dosha predictor: the predictor facade            *)
(* (ayurvedic_predictor.py), the artifact and dataset files it reads and   *)
(* writes, the recommendation tables, the scripts that load the model     *)
(* before predicting, and the web service (web_app.py) with its worker     *)
(* threads.  Spec is the life of a predictor instance used by one caller;  *)
(* SpecHttp is the web service answering requests concurrently.            *)
(*                                                                         *)
(* Text that the code transforms (symptom strings) is a sequence of        *)
(* one-character strings; text that is only copied is a TLA+ string.       *)
(* A probability vector is a sequence of natural numerators, one per       *)
(* class, over their sum as common denominator.  Percentages are integers  *)
(* counted in hundredths of a percent (3333 is 33.33).                     *)
(***************************************************************************)
EXTENDS Integers, Sequences, FiniteSets, TLC

\* ---------------------------------------------------------------- bounds
MaxSymptoms == 2        \* longest symptom list given to predict
MaxBatch == 2           \* longest list given to predict_batch
MaxDraw == 2            \* number of distinct random draws of the dataset
MaxVotes == 2           \* largest numerator of a probability vector that is searched
MaxThreads == 2         \* requests the web service handles at the same time
MaxRecords == 3         \* most records asked of one call of a dataset generator
MaxOffset == 11         \* numbers already drawn from the random generator before a call

\* ------------------------------------------------------------- constants
\* confidence_threshold = 0.3 as the fraction ThresholdNum / ThresholdDen
ThresholdNum == 3
ThresholdDen == 10

NoFile == [absent |-> TRUE]

\* an exception that leaves a call
Raised(exc) == [raised |-> exc]

Range(f) == {f[i] : i \in DOMAIN f}

\* ------------------------------------------------------------------ text
Lowercase == <<"a","b","c","d","e","f","g","h","i","j","k","l","m",
               "n","o","p","q","r","s","t","u","v","w","x","y","z">>
Uppercase == <<"A","B","C","D","E","F","G","H","I","J","K","L","M",
               "N","O","P","Q","R","S","T","U","V","W","X","Y","Z">>

Chars == Range(Lowercase) \cup Range(Uppercase) \cup {" ", ","}

\* the lower-case and the upper-case form of every character
LowerChar ==
    [c \in Chars |->
        IF \E i \in 1..26 : Uppercase[i] = c
        THEN Lowercase[CHOOSE i \in 1..26 : Uppercase[i] = c]
        ELSE c]

UpperChar ==
    [c \in Chars |->
        IF \E i \in 1..26 : Lowercase[i] = c
        THEN Uppercase[CHOOSE i \in 1..26 : Lowercase[i] = c]
        ELSE c]

\* str.lower()
lower(s) == [i \in 1..Len(s) |-> LowerChar[s[i]]]

\* str.capitalize(): first character upper-cased, the rest lower-cased
capitalize(s) == [i \in 1..Len(s) |-> IF i = 1 THEN UpperChar[s[i]] ELSE LowerChar[s[i]]]

\* ' '.join(list)
RECURSIVE join(_)
join(list) ==
    IF list = <<>> THEN <<>>
    ELSE IF Len(list) = 1 THEN list[1]
    ELSE list[1] \o <<" ">> \o join(Tail(list))

\* str.upper() on the labels the classifier can hold
upper(dosha) ==
    CASE dosha = "vata" -> "VATA"
      [] dosha = "pitta" -> "PITTA"
      [] dosha = "kapha" -> "KAPHA"
      [] dosha = "no_match" -> "NO_MATCH"
      [] dosha = "not vatham pitham or kapham" -> "NOT VATHAM PITHAM OR KAPHAM"

\* ------------------------------------------------- symptom strings used
dry_skin == <<"d", "r", "y", " ", "s", "k", "i", "n">>
fear == <<"f", "e", "a", "r">>
anger == <<"a", "n", "g", "e", "r">>
acne == <<"a", "c", "n", "e">>
greed == <<"g", "r", "e", "e", "d">>
cysts == <<"c", "y", "s", "t", "s">>
stroke == <<"s", "t", "r", "o", "k", "e">>
Anger == <<"A", "n", "g", "e", "r">>
headache == <<"h", "e", "a", "d", "a", "c", "h", "e">>

\* excerpts of the symptom corpora of the dataset creator: no string occurs
\* twice in a corpus, and the excerpts share no string
vata_symptoms ==
    <<dry_skin,
      <<"c", "o", "n", "s", "t", "i", "p", "a", "t", "i", "o", "n">>,
      <<"a", "n", "x", "i", "e", "t", "y">>,
      <<"i", "n", "s", "o", "m", "n", "i", "a">>,
      <<"w", "o", "r", "r", "y">>,
      fear,
      <<"b", "l", "o", "a", "t", "i", "n", "g">>,
      <<"d", "r", "y", " ", "h", "a", "i", "r">>>>
pitta_symptoms ==
    <<<<"a", "c", "i", "d", "i", "t", "y">>,
      anger,
      <<"u", "l", "c", "e", "r", "s">>,
      acne,
      <<"e", "c", "z", "e", "m", "a">>,
      <<"h", "i", "v", "e", "s">>,
      <<"f", "e", "v", "e", "r">>,
      <<"b", "o", "i", "l", "s">>>>
kapha_symptoms ==
    <<<<"c", "o", "n", "g", "e", "s", "t", "i", "o", "n">>,
      <<"w", "e", "i", "g", "h", "t", " ", "g", "a", "i", "n">>,
      <<"l", "e", "t", "h", "a", "r", "g", "y">>,
      greed,
      <<"p", "h", "l", "e", "g", "m">>,
      <<"a", "s", "t", "h", "m", "a">>,
      <<"e", "d", "e", "m", "a">>,
      cysts>>
no_match_symptoms ==
    <<<<"b", "r", "o", "k", "e", "n", " ", "b", "o", "n", "e">>,
      stroke,
      <<"g", "a", "l", "l", "s", "t", "o", "n", "e", "s">>,
      <<"b", "u", "r", "n", " ", "i", "n", "j", "u", "r", "y">>>>

\* symptom strings a caller passes to predict
InputSymptoms == {dry_skin, fear, Anger, stroke, headache, (<<" ">> \o headache)}

RECURSIVE SeqsUpTo(_, _)
SeqsUpTo(S, n) ==
    IF n = 0 THEN {<<>>}
    ELSE LET shorter == SeqsUpTo(S, n - 1)
         IN shorter \cup {Append(q, x) : q \in {r \in shorter : Len(r) = n - 1}, x \in S}

SymptomLists == SeqsUpTo(InputSymptoms, MaxSymptoms)
\* symptom lists a caller puts in a batch
BatchEntries == {<<>>, <<dry_skin>>, <<headache, Anger>>, <<stroke, stroke>>}

BatchLists == SeqsUpTo(BatchEntries, MaxBatch)

\* ------------------------------------------------ recommendation tables
symptom_recommendations ==
    (<<"d", "r", "y", " ", "s", "k", "i", "n">> :> [vata |-> "Apply warm sesame oil massage daily, use oil-based moisturizers", remedy |-> "Stay hydrated, consume healthy fats like ghee and nuts"]) @@
    (<<"c", "o", "n", "s", "t", "i", "p", "a", "t", "i", "o", "n">> :> [vata |-> "Drink warm water in morning, consume fiber-rich foods, take triphala at night", remedy |-> "Include cooked vegetables, warm soups, and avoid cold/dry foods"]) @@
    (<<"a", "n", "x", "i", "e", "t", "y">> :> [vata |-> "Practice meditation and pranayama, maintain regular sleep schedule", remedy |-> "Use calming herbs like ashwagandha, reduce caffeine intake"]) @@
    (<<"j", "o", "i", "n", "t", " ", "p", "a", "i", "n">> :> [vata |-> "Perform gentle yoga, apply warm oil massage on affected joints", remedy |-> "Consume turmeric milk, avoid cold and raw foods"]) @@
    (<<"a", "c", "i", "d", "i", "t", "y">> :> [pitta |-> "Avoid spicy, oily, and fried foods, eat cooling foods like cucumber", remedy |-> "Drink coconut water, consume aloe vera juice before meals"]) @@
    (<<"a", "n", "g", "e", "r">> :> [pitta |-> "Practice cooling pranayama (sitali), avoid heated arguments", remedy |-> "Use cooling herbs like coriander, reduce exposure to heat and sun"]) @@
    (<<"b", "u", "r", "n", "i", "n", "g", " ", "s", "e", "n", "s", "a", "t", "i", "o", "n">> :> [pitta |-> "Consume cooling foods like buttermilk, avoid hot spices", remedy |-> "Apply cooling sandalwood paste, drink plenty of water"]) @@
    (<<"i", "n", "f", "l", "a", "m", "m", "a", "t", "i", "o", "n">> :> [pitta |-> "Use anti-inflammatory herbs like turmeric and neem", remedy |-> "Avoid acidic foods, consume sweet fruits and vegetables"]) @@
    (<<"c", "o", "n", "g", "e", "s", "t", "i", "o", "n">> :> [kapha |-> "Perform steam inhalation with eucalyptus, avoid dairy products", remedy |-> "Drink warm ginger tea, use black pepper in meals"]) @@
    (<<"w", "e", "i", "g", "h", "t", " ", "g", "a", "i", "n">> :> [kapha |-> "Increase physical activity, eat light and warm foods", remedy |-> "Avoid heavy, oily foods, practice intermittent fasting"]) @@
    (<<"l", "e", "t", "h", "a", "r", "g", "y">> :> [kapha |-> "Wake up before sunrise, engage in vigorous exercise", remedy |-> "Consume stimulating spices like ginger, reduce daytime sleep"]) @@
    (<<"c", "o", "l", "d", " ", "l", "i", "m", "b", "s">> :> [kapha |-> "Keep body warm, perform active movements", remedy |-> "Drink warm beverages, use warming spices in cooking"]) @@
    (<<"h", "e", "a", "d", "a", "c", "h", "e">> :> [all |-> "Apply cooling paste on forehead, practice pranayama", remedy |-> "Stay hydrated, get adequate rest, avoid stress triggers"]) @@
    (<<"f", "a", "t", "i", "g", "u", "e">> :> [all |-> "Ensure proper sleep, consume nutritious meals", remedy |-> "Practice yoga, take adaptogenic herbs like ashwagandha"]) @@
    (<<"i", "n", "s", "o", "m", "n", "i", "a">> :> [vata |-> "Establish regular sleep routine, drink warm milk with nutmeg", remedy |-> "Practice relaxation techniques, avoid screens before bed"]) @@
    (<<"e", "x", "c", "e", "s", "s", "i", "v", "e", " ", "h", "e", "a", "t">> :> [pitta |-> "Stay in cool environment, avoid sun exposure during peak hours", remedy |-> "Consume cooling beverages, apply sandalwood paste"]) @@
    (<<"e", "x", "c", "e", "s", "s", "i", "v", "e", " ", "s", "l", "e", "e", "p">> :> [kapha |-> "Reduce sleep duration gradually, establish wake-up routine", remedy |-> "Avoid heavy meals at night, practice morning exercises"]) @@
    (<<"i", "r", "r", "e", "g", "u", "l", "a", "r", " ", "d", "i", "g", "e", "s", "t", "i", "o", "n">> :> [vata |-> "Eat at regular times, consume warm cooked meals", remedy |-> "Use digestive spices like cumin, avoid eating in stress"])

base_recommendations ==
    ("vata" :> [
       diet |-> <<"Favor warm, cooked, and nourishing foods",
                 "Include sweet, sour, and salty tastes",
                 "Consume healthy fats like ghee, nuts, and seeds",
                 "Avoid cold, raw, and dry foods",
                 "Eat at regular times">>,
       lifestyle |-> <<"Maintain regular daily routines",
                 "Practice oil massage (abhyanga) with warm sesame oil",
                 "Ensure adequate rest and avoid overexertion",
                 "Keep warm and avoid cold, windy environments",
                 "Practice calming yoga and meditation">>,
       herbs |-> <<"Ashwagandha",
                 "Triphala",
                 "Brahmi",
                 "Shatavari">>,
       yoga |-> <<"Gentle stretching",
                 "Grounding poses",
                 "Forward bends",
                 "Restorative yoga">>]) @@
    ("pitta" :> [
       diet |-> <<"Favor cool, fresh, and sweet foods",
                 "Include bitter and astringent tastes",
                 "Consume cooling vegetables like cucumber, leafy greens",
                 "Avoid spicy, oily, fried, and acidic foods",
                 "Drink plenty of water and coconut water">>,
       lifestyle |-> <<"Avoid excessive heat and sun exposure",
                 "Practice stress management techniques",
                 "Engage in moderate, not competitive exercise",
                 "Take cool showers and wear cooling colors",
                 "Maintain work-life balance">>,
       herbs |-> <<"Neem",
                 "Coriander",
                 "Aloe vera",
                 "Amla">>,
       yoga |-> <<"Cooling pranayama",
                 "Moon salutations",
                 "Gentle backbends",
                 "Meditation">>]) @@
    ("kapha" :> [
       diet |-> <<"Favor light, warm, and dry foods",
                 "Include pungent, bitter, and astringent tastes",
                 "Consume stimulating spices like ginger, black pepper",
                 "Avoid heavy, oily, and dairy-rich foods",
                 "Reduce portion sizes and avoid overeating">>,
       lifestyle |-> <<"Engage in regular vigorous exercise",
                 "Wake up early, preferably before sunrise",
                 "Perform dry massage (garshana)",
                 "Stay active and avoid excessive sleep",
                 "Seek variety and new experiences">>,
       herbs |-> <<"Trikatu",
                 "Guggulu",
                 "Turmeric",
                 "Tulsi">>,
       yoga |-> <<"Vigorous vinyasa",
                 "Sun salutations",
                 "Backbends",
                 "Inversions">>])

\* ---------------------------------------------------------------- state
VARIABLES
    csv,             \* symptoms_dataset.csv: NoFile or the dataset written
    classifier_pkl,  \* ayurvedic_classifier.pkl: NoFile or a dumped classifier
    vectorizer_pkl,  \* symptoms_vectorizer.pkl: NoFile or a dumped vectorizer
    vectorizer,      \* predictor.vectorizer
    classifier,      \* predictor.classifier
    model_loaded,    \* predictor.model_loaded
    confidence_threshold, \* predictor.confidence_threshold, a fraction [num, den]
    call,            \* the last call made on the predictor and what it returned
    http             \* the requests the web service is handling, by worker thread

vars == <<csv, classifier_pkl, vectorizer_pkl, vectorizer, classifier, model_loaded,
          confidence_threshold, call, http>>

\* ------------------------------------------------------ dataset creator
Doshas == <<"vata", "pitta", "kapha">>

all_symptoms == ("vata" :> vata_symptoms) @@ ("pitta" :> pitta_symptoms) @@ ("kapha" :> kapha_symptoms)

\* np.random: the n-th number the generator hands out after rng.offset numbers
\* were drawn from the state seeded with rng.seed
random(rng, n) ==
    LET x == rng.offset + n
    IN (x * x * 31 + x * (17 + 7 * rng.seed) + 13 * rng.seed + (x \div 3)) % 1009

\* np.random.randint(low, high): an integer of low..(high - 1)
randint(low, high, r) == low + (r % (high - low))

\* np.random.uniform(low, high), in hundredths: low <= value < high
uniform(low, high, r) == low + (r % (high - low))

\* np.random.choice(a): one element
choice1(a, r) == a[(r % Len(a)) + 1]

\* np.random.choice(a, size, replace=False): size elements at distinct
\* positions of a; ValueError when a has fewer than size elements
choice(a, size, r) ==
    IF size > Len(a) THEN Raised("ValueError")
    ELSE [ok |-> [j \in 1..size |-> a[((r + j - 1) % Len(a)) + 1]]]

\* np.random.shuffle(list): the elements in another order
shuffle(list, r) ==
    [j \in 1..Len(list) |-> list[((r + j - 1) % Len(list)) + 1]]

\* variant: the size drawn is not the size recorded
generate_symptom_combinations_resized(symptoms, dosha, num_combinations, rng) ==
    LET num_symptoms(i) == randint(2, 9, random(rng, 2 * i - 1))
        selected(i) == choice(symptoms, num_symptoms(i) - 1, random(rng, 2 * i))
    IN IF \E i \in 1..num_combinations : "raised" \in DOMAIN selected(i)
       THEN Raised("ValueError")
       ELSE [ok |-> [i \in 1..num_combinations |->
                        [symptoms |-> join(selected(i).ok),
                         dosha |-> dosha,
                         num_symptoms |-> num_symptoms(i)]]]

\* num_combinations records of one category: 2 to 8 strings of the corpus,
\* none twice, joined by blanks
generate_symptom_combinations(symptoms, dosha, num_combinations, rng) ==
    LET num_symptoms(i) == randint(2, 9, random(rng, 2 * i - 1))
        selected(i) == choice(symptoms, num_symptoms(i), random(rng, 2 * i))
    IN IF \E i \in 1..num_combinations : "raised" \in DOMAIN selected(i)
       THEN Raised("ValueError")
       ELSE [ok |-> [i \in 1..num_combinations |->
                        [symptoms |-> join(selected(i).ok),
                         dosha |-> dosha,
                         num_symptoms |-> num_symptoms(i)]]]

\* num_combinations records that mix a primary and a secondary category; a
\* record takes seven numbers of the generator; the label is the primary one
create_mixed_combinations(num_combinations, rng) ==
    LET at(i) == [rng EXCEPT !.offset = @ + 7 * (i - 1)]
        primary_dosha(i) == choice1(Doshas, random(at(i), 1))
        total_symptoms(i) == randint(3, 8, random(at(i), 2))
        \* int(total_symptoms * uniform(0.6, 0.8)): truncation
        primary_count(i) == (total_symptoms(i) * uniform(60, 80, random(at(i), 3))) \div 100
        secondary_count(i) == total_symptoms(i) - primary_count(i)
        primary_symptoms(i) ==
            choice(all_symptoms[primary_dosha(i)], primary_count(i), random(at(i), 4))
        secondary_doshas(i) == SelectSeq(Doshas, LAMBDA d : d # primary_dosha(i))
        secondary_dosha(i) == choice1(secondary_doshas(i), random(at(i), 5))
        secondary_symptoms(i) ==
            choice(all_symptoms[secondary_dosha(i)], secondary_count(i), random(at(i), 6))
        all_case_symptoms(i) ==
            shuffle(primary_symptoms(i).ok \o secondary_symptoms(i).ok, random(at(i), 7))
    IN IF \E i \in 1..num_combinations :
              \/ "raised" \in DOMAIN primary_symptoms(i)
              \/ "raised" \in DOMAIN secondary_symptoms(i)
       THEN Raised("ValueError")
       ELSE [ok |-> [i \in 1..num_combinations |->
                        [symptoms |-> join(all_case_symptoms(i)),
                         dosha |-> primary_dosha(i),
                         num_symptoms |-> total_symptoms(i),
                         mixed |-> "True"]]]

\* num_cases records of 1 to 3 strings of the injury and disease list
create_no_match_cases(num_cases, rng) ==
    LET num_symptoms(i) == randint(1, 4, random(rng, 2 * i - 1))
        selected(i) == choice(no_match_symptoms, num_symptoms(i), random(rng, 2 * i))
    IN IF \E i \in 1..num_cases : "raised" \in DOMAIN selected(i)
       THEN Raised("ValueError")
       ELSE [ok |-> [i \in 1..num_cases |->
                        [symptoms |-> join(selected(i).ok),
                         dosha |-> "no_match",
                         num_symptoms |-> num_symptoms(i)]]]

\* pd.DataFrame(all_data): one row per record, a column per key; a record
\* without the key has no value in the column
DataFrame(all_data) ==
    [i \in 1..Len(all_data) |->
        IF "mixed" \in DOMAIN all_data[i] THEN all_data[i]
        ELSE all_data[i] @@ ("mixed" :> "NaN")]

\* variant: rows are drawn with replacement
sample_with_replacement(df, r) ==
    [i \in 1..Len(df) |-> df[((r + i * i) % Len(df)) + 1]]

\* df.sample(frac=1).reset_index(drop=True): the rows in another order
sample(df, r) ==
    [i \in 1..Len(df) |-> df[((r + i - 1) % Len(df)) + 1]]

\* the records create_comprehensive_dataset collects before it shuffles them
all_data(rng) ==
    generate_symptom_combinations(vata_symptoms, "vata", 80, rng).ok
    \o generate_symptom_combinations(pitta_symptoms, "pitta", 80, [rng EXCEPT !.offset = @ + 160]).ok
    \o generate_symptom_combinations(kapha_symptoms, "kapha", 80, [rng EXCEPT !.offset = @ + 320]).ok
    \o create_mixed_combinations(60, [rng EXCEPT !.offset = @ + 480]).ok
    \o create_no_match_cases(30, [rng EXCEPT !.offset = @ + 900]).ok

\* the rows written by create_comprehensive_dataset for one random draw
create_comprehensive_dataset(draw) ==
    LET rng == [seed |-> draw, offset |-> 0]
        df == DataFrame(all_data(rng))
    IN [draw |-> draw, rows |-> sample(df, random(rng, 961))]

\* the dataset written for every draw
Datasets == [draw \in 0..(MaxDraw - 1) |-> create_comprehensive_dataset(draw)]

\* ------------------------------------------------------ text vectorizer
RECURSIVE SplitWords(_, _, _)
SplitWords(text, word, acc) ==
    IF text = <<>> THEN (IF word = <<>> THEN acc ELSE Append(acc, word))
    ELSE IF Head(text) = " "
         THEN SplitWords(Tail(text), <<>>, IF word = <<>> THEN acc ELSE Append(acc, word))
         ELSE SplitWords(Tail(text), Append(word, Head(text)), acc)

\* the analyzer of TfidfVectorizer: lower-case, words of two characters or more
\* (no word of the modelled corpora is an English stop word)
build_analyzer(text) == SelectSeq(SplitWords(lower(text), <<>>, <<>>), LAMBDA w : Len(w) >= 2)

UnfittedVectorizer == [fitted |-> FALSE, vocabulary_ |-> {}]

\* vectorizer.fit_transform(X): the vocabulary is the set of words of the documents
fit_transform(X) ==
    [fitted |-> TRUE, vocabulary_ |-> UNION {Range(build_analyzer(doc)) : doc \in X}]

\* vectorizer.transform([text]): the count of every vocabulary word in the text;
\* words outside the vocabulary are dropped
transform(vec, text) ==
    LET words == build_analyzer(text)
    IN [w \in vec.vocabulary_ |-> Cardinality({i \in DOMAIN words : words[i] = w})]

\* ----------------------------------------------------------- classifier
\* classes_ is the sorted array of the distinct labels seen by fit
LabelOrder == <<"kapha", "no_match", "pitta", "vata">>

UnfittedClassifier == [fitted |-> FALSE, classes_ |-> <<>>, forest |-> 0]

\* variant: rows labelled no_match are dropped before fitting
TrainingLabelsWithoutNoMatch(df) == {r.dosha : r \in Range(df.rows)} \ {"no_match"}

\* the labels the classifier is fitted on: y = df['dosha'].values; the
\* stratified split keeps every label of y in y_train
TrainingLabels(df) == {r.dosha : r \in Range(df.rows)}

\* classifier.fit(X_train, y_train): the forest grown depends on the dataset drawn
fit(df) ==
    [fitted |-> TRUE,
     classes_ |-> SelectSeq(LabelOrder, LAMBDA l : l \in TrainingLabels(df)),
     forest |-> df.draw]

\* class distributions a forest can return, as numerators over classes_
\* (the first entries are used when there are fewer classes)
LeafDistributions ==
    << <<1, 1, 1, 1>>,
       <<3, 3, 2, 2>>,
       <<0, 0, 1, 0>>,
       <<1, 7, 1, 1>>,
       <<2, 2, 2, 1>>,
       <<1, 0, 1, 1>>,
       <<1, 1, 2, 5>>,
       <<2, 1, 1, 3>> >>

RECURSIVE SumOver(_, _)
SumOver(f, S) ==
    IF S = {} THEN 0
    ELSE LET x == CHOOSE y \in S : TRUE IN f[x] + SumOver(f, S \ {x})

Sum(f) == SumOver(f, DOMAIN f)

\* classifier.predict_proba(X)[0]: a fixed function of the fitted forest and
\* of the feature vector
predict_proba(clf, X) ==
    LET weighted == [w \in DOMAIN X |-> X[w] * Len(w)]
        leaf == ((clf.forest + Sum(weighted)) % Len(LeafDistributions)) + 1
    IN SubSeq(LeafDistributions[leaf], 1, Len(clf.classes_))

\* np.argmax: the first index holding the maximum
argmax(p) == CHOOSE i \in DOMAIN p : (\A j \in DOMAIN p : p[j] <= p[i]) /\ (\A j \in 1..(i - 1) : p[j] < p[i])

\* variant: rounding to one decimal instead of two
round1(num, den) ==
    LET scaled == num * 1000
        q == scaled \div den
        r == scaled % den
    IN 10 * (IF 2 * r < den THEN q
             ELSE IF 2 * r > den THEN q + 1
             ELSE IF q % 2 = 0 THEN q ELSE q + 1)

\* round(num / den * 100, 2) in hundredths of a percent, ties to even
round2(num, den) ==
    LET scaled == num * 10000
        q == scaled \div den
        r == scaled % den
    IN IF 2 * r < den THEN q
       ELSE IF 2 * r > den THEN q + 1
       ELSE IF q % 2 = 0 THEN q ELSE q + 1

\* variant: <= in place of <
at_or_below_threshold(num, den) == num * confidence_threshold.den <= confidence_threshold.num * den

\* best_probability < self.confidence_threshold
below_threshold(num, den) == num * confidence_threshold.den < confidence_threshold.num * den

\* ------------------------------------------------- recommendation engine
Sentinel == "not vatham pitham or kapham"

LowConfidence == "Low confidence - symptoms don't clearly match known patterns"

SentinelBundle ==
    [general |-> "Your symptoms don't clearly match traditional Ayurvedic dosha patterns. This could indicate a complex imbalance or non-Ayurvedic condition.",
     advice |-> "We strongly recommend consulting with a qualified Ayurvedic practitioner for personalized assessment and treatment plan.",
     note |-> "Professional guidance is essential for accurate diagnosis and treatment."]

\* every line of specific_recommendations and of remedies is the sequence
\* of the pieces of text it is made of

\* the loop over the symptoms that fills specific_recommendations
RECURSIVE specific_loop(_, _, _)
specific_loop(dosha, symptoms, acc) ==
    IF symptoms = <<>> THEN acc
    ELSE LET symptom == Head(symptoms)
             symptom_lower == lower(symptom)
         IN IF symptom_lower \in DOMAIN symptom_recommendations
            THEN LET rec == symptom_recommendations[symptom_lower]
                 IN specific_loop(dosha, Tail(symptoms),
                        IF dosha \in DOMAIN rec
                        THEN Append(acc, <<"For ", symptom, ": ", rec[dosha]>>)
                        ELSE IF "all" \in DOMAIN rec
                             THEN Append(acc, <<"For ", symptom, ": ", rec["all"]>>)
                             ELSE acc)
            ELSE specific_loop(dosha, Tail(symptoms), acc)

\* variant: the table is looked up by the symptom as given, not lower-cased
RECURSIVE remedies_loop_exact_case(_, _)
remedies_loop_exact_case(symptoms, acc) ==
    IF symptoms = <<>> THEN acc
    ELSE LET symptom == Head(symptoms)
         IN IF symptom \in DOMAIN symptom_recommendations
            THEN LET rec == symptom_recommendations[symptom]
                 IN remedies_loop_exact_case(Tail(symptoms),
                        IF "remedy" \in DOMAIN rec
                        THEN Append(acc, <<"* ", capitalize(symptom), ": ", rec["remedy"]>>)
                        ELSE acc)
            ELSE remedies_loop_exact_case(Tail(symptoms), acc)

\* the same loop, filling remedies (the bullet character of the source is
\* written as an asterisk)
RECURSIVE remedies_loop(_, _)
remedies_loop(symptoms, acc) ==
    IF symptoms = <<>> THEN acc
    ELSE LET symptom == Head(symptoms)
             symptom_lower == lower(symptom)
         IN IF symptom_lower \in DOMAIN symptom_recommendations
            THEN LET rec == symptom_recommendations[symptom_lower]
                 IN remedies_loop(Tail(symptoms),
                        IF "remedy" \in DOMAIN rec
                        THEN Append(acc, <<"* ", capitalize(symptom), ": ", rec["remedy"]>>)
                        ELSE acc)
            ELSE remedies_loop(Tail(symptoms), acc)

\* the lines used when the loop contributed nothing
GeneralGuidelines == <<"Maintain balanced lifestyle according to general dosha guidelines">>
GeneralPractices == <<"Follow general dosha-balancing practices">>

\* base_recommendations.get(dosha, {}).get(field, [])
base_get(dosha, field) ==
    IF dosha \in DOMAIN base_recommendations THEN base_recommendations[dosha][field] ELSE <<>>

\* variant: the two lists are returned as the loop left them
_get_recommendation_no_fallback(dosha, symptoms) ==
    IF dosha = Sentinel THEN SentinelBundle
    ELSE [dosha |-> upper(dosha),
          diet |-> base_get(dosha, "diet"),
          lifestyle |-> base_get(dosha, "lifestyle"),
          herbs |-> base_get(dosha, "herbs"),
          yoga |-> base_get(dosha, "yoga"),
          specific_recommendations |-> specific_loop(dosha, symptoms, <<>>),
          remedies |-> remedies_loop(symptoms, <<>>),
          note |-> <<"These recommendations are for balancing ", upper(dosha),
                     " dosha. Always consult an Ayurvedic practitioner for personalized treatment.">>]

\* variant: the advisory bundle is chosen by the label no_match
_get_recommendation_by_label(dosha, symptoms) ==
    IF dosha = "no_match" THEN SentinelBundle
    ELSE LET specific_recommendations == specific_loop(dosha, symptoms, <<>>)
             remedies == remedies_loop(symptoms, <<>>)
         IN [dosha |-> upper(dosha),
             diet |-> base_get(dosha, "diet"),
             lifestyle |-> base_get(dosha, "lifestyle"),
             herbs |-> base_get(dosha, "herbs"),
             yoga |-> base_get(dosha, "yoga"),
             specific_recommendations |->
                 IF specific_recommendations # <<>> THEN specific_recommendations
                 ELSE <<GeneralGuidelines>>,
             remedies |->
                 IF remedies # <<>> THEN remedies
                 ELSE <<GeneralPractices>>,
             note |-> <<"These recommendations are for balancing ", upper(dosha),
                        " dosha. Always consult an Ayurvedic practitioner for personalized treatment.">>]

_get_recommendation(dosha, symptoms) ==
    IF dosha = Sentinel THEN SentinelBundle
    ELSE LET specific_recommendations == specific_loop(dosha, symptoms, <<>>)
             remedies == remedies_loop(symptoms, <<>>)
         IN [dosha |-> upper(dosha),
             diet |-> base_get(dosha, "diet"),
             lifestyle |-> base_get(dosha, "lifestyle"),
             herbs |-> base_get(dosha, "herbs"),
             yoga |-> base_get(dosha, "yoga"),
             specific_recommendations |->
                 IF specific_recommendations # <<>> THEN specific_recommendations
                 ELSE <<GeneralGuidelines>>,
             remedies |->
                 IF remedies # <<>> THEN remedies
                 ELSE <<GeneralPractices>>,
             note |-> <<"These recommendations are for balancing ", upper(dosha),
                        " dosha. Always consult an Ayurvedic practitioner for personalized treatment.">>]

\* ------------------------------------------------------ predictor facade
\* preprocess_symptoms: ' '.join(symptoms).lower()
preprocess_symptoms(symptoms) == lower(join(symptoms))

NotLoaded == [error |-> "Model not loaded. Please load model first."]

\* an exception leaving the call instead of a result

\* variant: classes of probability zero are left out of the mapping
dosha_probabilities_nonzero(classes, probabilities) ==
    [dosha \in {classes[i] : i \in {j \in DOMAIN classes : probabilities[j] > 0}} |->
        round2(probabilities[CHOOSE i \in DOMAIN classes : classes[i] = dosha], Sum(probabilities))]

\* dosha_probabilities[dosha] = round(probabilities[i] * 100, 2) for every class
dosha_probabilities(classes, probabilities) ==
    [dosha \in Range(classes) |->
        round2(probabilities[CHOOSE i \in DOMAIN classes : classes[i] = dosha], Sum(probabilities))]

\* variant: the model_loaded check is missing
predict_unguarded(symptoms) ==
    IF ~vectorizer.fitted \/ ~classifier.fitted THEN Raised("NotFittedError")
    ELSE LET symptoms_text == preprocess_symptoms(symptoms)
             symptoms_vectorized == transform(vectorizer, symptoms_text)
             probabilities == predict_proba(classifier, symptoms_vectorized)
             classes == classifier.classes_
             max_prob_idx == argmax(probabilities)
             best_dosha == classes[max_prob_idx]
             best_probability == probabilities[max_prob_idx]
             low == below_threshold(best_probability, Sum(probabilities))
             prediction == IF low THEN Sentinel ELSE best_dosha
         IN [prediction |-> prediction,
             confidence |-> IF low THEN <<LowConfidence>>
                            ELSE <<round2(best_probability, Sum(probabilities)), "%">>,
             dosha_percentages |-> dosha_probabilities(classes, probabilities),
             symptoms_analyzed |-> symptoms,
             recommendation |-> _get_recommendation(prediction, symptoms)]

\* variant: an empty symptom list is rejected before vectorization
predict_rejects_empty(symptoms) ==
    IF ~model_loaded THEN NotLoaded
    ELSE IF symptoms = <<>> THEN [error |-> "No symptoms provided"]
    ELSE predict_unguarded(symptoms)

predict(symptoms) ==
    IF ~model_loaded THEN NotLoaded
    ELSE IF ~vectorizer.fitted \/ ~classifier.fitted THEN Raised("NotFittedError")
    ELSE LET symptoms_text == preprocess_symptoms(symptoms)
             symptoms_vectorized == transform(vectorizer, symptoms_text)
             probabilities == predict_proba(classifier, symptoms_vectorized)
             classes == classifier.classes_
             max_prob_idx == argmax(probabilities)
             best_dosha == classes[max_prob_idx]
             best_probability == probabilities[max_prob_idx]
             low == below_threshold(best_probability, Sum(probabilities))
             prediction == IF low THEN Sentinel ELSE best_dosha
         IN [prediction |-> prediction,
             confidence |-> IF low THEN <<LowConfidence>>
                            ELSE <<round2(best_probability, Sum(probabilities)), "%">>,
             dosha_percentages |-> dosha_probabilities(classes, probabilities),
             symptoms_analyzed |-> symptoms,
             recommendation |-> _get_recommendation(prediction, symptoms)]

\* predict_batch: the loop appending predict(symptoms) for every entry
RECURSIVE batch_loop(_, _)
batch_loop(symptoms_list, results) ==
    IF symptoms_list = <<>> THEN results
    ELSE batch_loop(Tail(symptoms_list), Append(results, predict(Head(symptoms_list))))

\* variant: every entry is answered with the prediction for the first entry
predict_batch_first(symptoms_list) ==
    [i \in 1..Len(symptoms_list) |-> predict(symptoms_list[1])]

predict_batch(symptoms_list) == batch_loop(symptoms_list, <<>>)

\* ------------------------------------------------------------ web service
\* the worker threads of the development server, one per request in progress
Threads == 1..MaxThreads

\* a worker thread that is handling no request
NoRequest == [pc |-> "none"]

\* the values a request body decodes to, each tagged with its JSON type;
\* Malformed is a body that is not JSON
JNull == [type |-> "null"]
JNumber(n) == [type |-> "number", value |-> n]
JString(s) == [type |-> "string", value |-> s]
JArray(list) == [type |-> "array", value |-> list]
JObject(members) == [type |-> "object", value |-> members]
Malformed == [type |-> "malformed"]

\* an object without members
NoMembers == [key \in {} |-> JNull]

IsRaised(x) == "raised" \in DOMAIN x

\* str.strip()
RECURSIVE lstrip(_)
lstrip(s) == IF s # <<>> /\ Head(s) = " " THEN lstrip(Tail(s)) ELSE s

RECURSIVE rstrip(_)
rstrip(s) == IF s # <<>> /\ s[Len(s)] = " " THEN rstrip(SubSeq(s, 1, Len(s) - 1)) ELSE s

strip(s) == rstrip(lstrip(s))

\* request.get_json(): the decoded body, BadRequest raised for a body that
\* is not JSON
get_json(body) == IF body.type = "malformed" THEN Raised("BadRequest") ELSE body

\* data.get(key, default): only a JSON object has the method
get(data, key, default) ==
    IF data.type # "object" THEN Raised("AttributeError")
    ELSE IF key \in DOMAIN data.value THEN data.value[key] ELSE default

\* `not value` on a decoded JSON value
falsy(value) ==
    CASE value.type = "null" -> TRUE
      [] value.type = "number" -> value.value = 0
      [] value.type \in {"string", "array"} -> value.value = <<>>
      [] value.type = "object" -> DOMAIN value.value = {}

\* [symptom.strip() for symptom in symptoms if symptom.strip()]: [ok |-> the
\* list] or the exception raised on a value that cannot be iterated or on an
\* item that is not a string
RECURSIVE strip_loop(_, _)
strip_loop(items, acc) ==
    IF items = <<>> THEN [ok |-> acc]
    ELSE IF Head(items).type # "string" THEN Raised("AttributeError")
    ELSE LET stripped == strip(Head(items).value)
         IN strip_loop(Tail(items), IF stripped # <<>> THEN Append(acc, stripped) ELSE acc)

strip_symptoms(symptoms) ==
    IF symptoms.type # "array" THEN Raised("TypeError") ELSE strip_loop(symptoms.value, <<>>)

\* jsonify(value): a JSON response with status 200
jsonify(value) == [status |-> 200, json |-> value]

\* variant: the handlers catch ValueError only
except_ValueError(outcome) ==
    IF IsRaised(outcome) /\ outcome.raised = "ValueError"
    THEN jsonify([error |-> outcome.raised]) ELSE outcome

\* except Exception as e: return jsonify({'error': str(e)}); the text of an
\* exception is written as its class name
except_Exception(outcome) ==
    IF IsRaised(outcome) THEN jsonify([error |-> outcome.raised]) ELSE outcome

\* what the framework sends for a view that raised: the error page of
\* status 500
dispatch_request(outcome) ==
    IF IsRaised(outcome) THEN [status |-> 500, html |-> outcome.raised] ELSE outcome

\* predictor.predict(symptoms) on a decoded JSON value: the loaded check comes
\* first, then ' '.join raises TypeError on anything but a list of strings
predict_value(symptoms) ==
    IF ~model_loaded THEN NotLoaded
    ELSE IF symptoms.type # "array" THEN Raised("TypeError")
    ELSE IF \E i \in DOMAIN symptoms.value : symptoms.value[i].type # "string"
         THEN Raised("TypeError")
    ELSE predict([i \in DOMAIN symptoms.value |-> symptoms.value[i].value])

\* the body of the try block of the /predict view
predict_try(body) ==
    LET data == get_json(body)
    IN IF IsRaised(data) THEN data
       ELSE LET symptoms == get(data, "symptoms", JArray(<<>>))
            IN IF IsRaised(symptoms) THEN symptoms
               ELSE IF falsy(symptoms) THEN jsonify([error |-> "No symptoms provided"])
               ELSE LET stripped == strip_symptoms(symptoms)
                    IN IF IsRaised(stripped) THEN stripped
                       ELSE IF stripped.ok = <<>> THEN jsonify([error |-> "No valid symptoms provided"])
                       ELSE LET result == predict(stripped.ok)
                            IN IF IsRaised(result) THEN result ELSE jsonify(result)

\* the /predict view
predict_view(body) == except_Exception(predict_try(body))

\* predictor.predict_batch(symptoms_list) on decoded JSON entries: the
\* results, or the exception of the first entry that raises
RECURSIVE predict_batch_values(_, _)
predict_batch_values(symptoms_list, results) ==
    IF symptoms_list = <<>> THEN [ok |-> results]
    ELSE LET result == predict_value(Head(symptoms_list))
         IN IF IsRaised(result) THEN result
            ELSE predict_batch_values(Tail(symptoms_list), Append(results, result))

\* the body of the try block of the /batch_predict view
batch_predict_try(body) ==
    LET data == get_json(body)
    IN IF IsRaised(data) THEN data
       ELSE LET symptoms_list == get(data, "symptoms_list", JArray(<<>>))
            IN IF IsRaised(symptoms_list) THEN symptoms_list
               ELSE IF falsy(symptoms_list) THEN jsonify([error |-> "No symptoms list provided"])
               ELSE IF symptoms_list.type # "array" THEN Raised("TypeError")
               ELSE LET results == predict_batch_values(symptoms_list.value, <<>>)
                    IN IF IsRaised(results) THEN results
                       ELSE jsonify([predictions |-> results.ok])

\* the /batch_predict view
batch_predict_view(body) == except_Exception(batch_predict_try(body))

\* the /health view
health_check == jsonify([status |-> "healthy", model_loaded |-> model_loaded])

\* the / view: the rendered page
home == [status |-> 200, html |-> "index.html"]

\* ---------------------------------------------------------------- actions
\* the caller is between two calls
Idle == [op |-> "idle", args |-> <<>>, ret |-> <<>>, was_loaded |-> FALSE]

\* the call just made: its name, its argument, what it returned, and
\* model_loaded as it was when the call was made
Called(op, args, ret) == [op |-> op, args |-> args, ret |-> ret, was_loaded |-> model_loaded]

Init ==
    /\ csv = NoFile
    /\ classifier_pkl = NoFile
    /\ vectorizer_pkl = NoFile
    /\ vectorizer = UnfittedVectorizer
    /\ classifier = UnfittedClassifier
    /\ model_loaded = FALSE
    /\ confidence_threshold = [num |-> ThresholdNum, den |-> ThresholdDen]
    /\ call = Idle
    /\ http = [thread \in Threads |-> NoRequest]

\* AyurvedicPredictor(): a script constructs its predictor
NewPredictor ==
    /\ call = Idle
    /\ confidence_threshold' = [num |-> ThresholdNum, den |-> ThresholdDen]
    /\ UNCHANGED http
    /\ vectorizer' = UnfittedVectorizer
    /\ classifier' = UnfittedClassifier
    /\ model_loaded' = FALSE
    /\ UNCHANGED <<csv, classifier_pkl, vectorizer_pkl, call>>

\* dataset_creator: df.to_csv(output_file) of a freshly drawn dataset
CreateDataset ==
    /\ call = Idle
    /\ UNCHANGED <<confidence_threshold, http>>
    /\ \E draw \in 0..(MaxDraw - 1) : csv' = Datasets[draw]
    /\ UNCHANGED <<classifier_pkl, vectorizer_pkl, vectorizer, classifier, model_loaded, call>>

\* a file of the working directory is removed between two calls
RemoveFile ==
    /\ call = Idle
    /\ UNCHANGED <<confidence_threshold, http>>
    /\ \/ csv # NoFile /\ csv' = NoFile /\ UNCHANGED <<classifier_pkl, vectorizer_pkl>>
       \/ classifier_pkl # NoFile /\ classifier_pkl' = NoFile /\ UNCHANGED <<csv, vectorizer_pkl>>
       \/ vectorizer_pkl # NoFile /\ vectorizer_pkl' = NoFile /\ UNCHANGED <<csv, classifier_pkl>>
    /\ UNCHANGED <<vectorizer, classifier, model_loaded, call>>

\* variant: training also marks the predictor loaded
train_model_then_load ==
    /\ call = Idle
    /\ UNCHANGED <<confidence_threshold, http>>
    /\ IF csv = NoFile
       THEN /\ call' = Called("train_model", <<>>, [status |-> "Dataset not found. Please run dataset_creator.py first."])
            /\ UNCHANGED <<csv, classifier_pkl, vectorizer_pkl, vectorizer, classifier, model_loaded>>
       ELSE LET X == {r.symptoms : r \in Range(csv.rows)}
            IN /\ vectorizer' = fit_transform(X)
               /\ classifier' = fit(csv)
               /\ classifier_pkl' = classifier'
               /\ vectorizer_pkl' = vectorizer'
               /\ call' = Called("train_model", <<>>, [status |-> "Model and vectorizer saved successfully!"])
               /\ model_loaded' = TRUE
               /\ UNCHANGED csv

\* variant: the artifacts are saved even when the dataset is missing
train_model_saves_anyway ==
    /\ call = Idle
    /\ UNCHANGED <<confidence_threshold, http>>
    /\ IF csv = NoFile
       THEN /\ call' = Called("train_model", <<>>, [status |-> "Dataset not found. Please run dataset_creator.py first."])
            /\ classifier_pkl' = classifier
            /\ vectorizer_pkl' = vectorizer
            /\ UNCHANGED <<csv, vectorizer, classifier, model_loaded>>
       ELSE LET X == {r.symptoms : r \in Range(csv.rows)}
            IN /\ vectorizer' = fit_transform(X)
               /\ classifier' = fit(csv)
               /\ classifier_pkl' = classifier'
               /\ vectorizer_pkl' = vectorizer'
               /\ call' = Called("train_model", <<>>, [status |-> "Model and vectorizer saved successfully!"])
               /\ UNCHANGED <<csv, model_loaded>>

\* train_model, with load_data and save_model
train_model ==
    /\ call = Idle
    /\ UNCHANGED <<confidence_threshold, http>>
    /\ IF csv = NoFile
       THEN /\ call' = Called("train_model", <<>>, [status |-> "Dataset not found. Please run dataset_creator.py first."])
            /\ UNCHANGED <<csv, classifier_pkl, vectorizer_pkl, vectorizer, classifier, model_loaded>>
       ELSE LET X == {r.symptoms : r \in Range(csv.rows)}
            IN /\ vectorizer' = fit_transform(X)
               /\ classifier' = fit(csv)
               /\ classifier_pkl' = classifier'
               /\ vectorizer_pkl' = vectorizer'
               /\ call' = Called("train_model", <<>>, [status |-> "Model and vectorizer saved successfully!"])
               /\ UNCHANGED <<csv, model_loaded>>

\* variant: a failed load leaves model_loaded as it was
load_model_keeps_flag ==
    /\ call = Idle
    /\ UNCHANGED <<confidence_threshold, http>>
    /\ IF classifier_pkl = NoFile
       THEN /\ call' = Called("load_model", <<>>, [status |-> "Model files not found. Please train the model first."])
            /\ UNCHANGED <<csv, classifier_pkl, vectorizer_pkl, vectorizer, classifier, model_loaded>>
       ELSE IF vectorizer_pkl = NoFile
       THEN /\ classifier' = classifier_pkl
            /\ call' = Called("load_model", <<>>, [status |-> "Model files not found. Please train the model first."])
            /\ UNCHANGED <<csv, classifier_pkl, vectorizer_pkl, vectorizer, model_loaded>>
       ELSE /\ classifier' = classifier_pkl
            /\ vectorizer' = vectorizer_pkl
            /\ model_loaded' = TRUE
            /\ call' = Called("load_model", <<>>, [status |-> "Model loaded successfully!"])
            /\ UNCHANGED <<csv, classifier_pkl, vectorizer_pkl>>

\* variant: the predictor is marked loaded as soon as the classifier is read
load_model_classifier_only ==
    /\ call = Idle
    /\ UNCHANGED <<confidence_threshold, http>>
    /\ IF classifier_pkl = NoFile
       THEN /\ model_loaded' = FALSE
            /\ call' = Called("load_model", <<>>, [status |-> "Model files not found. Please train the model first."])
            /\ UNCHANGED <<csv, classifier_pkl, vectorizer_pkl, vectorizer, classifier>>
       ELSE IF vectorizer_pkl = NoFile
       THEN /\ classifier' = classifier_pkl
            /\ model_loaded' = TRUE
            /\ call' = Called("load_model", <<>>, [status |-> "Model files not found. Please train the model first."])
            /\ UNCHANGED <<csv, classifier_pkl, vectorizer_pkl, vectorizer>>
       ELSE /\ classifier' = classifier_pkl
            /\ vectorizer' = vectorizer_pkl
            /\ model_loaded' = TRUE
            /\ call' = Called("load_model", <<>>, [status |-> "Model loaded successfully!"])
            /\ UNCHANGED <<csv, classifier_pkl, vectorizer_pkl>>

\* load_model: the two joblib.load calls in order, FileNotFoundError caught
load_model ==
    /\ call = Idle
    /\ UNCHANGED <<confidence_threshold, http>>
    /\ IF classifier_pkl = NoFile
       THEN /\ model_loaded' = FALSE
            /\ call' = Called("load_model", <<>>, [status |-> "Model files not found. Please train the model first."])
            /\ UNCHANGED <<csv, classifier_pkl, vectorizer_pkl, vectorizer, classifier>>
       ELSE IF vectorizer_pkl = NoFile
       THEN /\ classifier' = classifier_pkl
            /\ model_loaded' = FALSE
            /\ call' = Called("load_model", <<>>, [status |-> "Model files not found. Please train the model first."])
            /\ UNCHANGED <<csv, classifier_pkl, vectorizer_pkl, vectorizer>>
       ELSE /\ classifier' = classifier_pkl
            /\ vectorizer' = vectorizer_pkl
            /\ model_loaded' = TRUE
            /\ call' = Called("load_model", <<>>, [status |-> "Model loaded successfully!"])
            /\ UNCHANGED <<csv, classifier_pkl, vectorizer_pkl>>

\* variant: predict refits the vectorizer on the text it is given
PredictCallRefits ==
    /\ call = Idle
    /\ UNCHANGED <<confidence_threshold, http>>
    /\ \E symptoms \in SymptomLists :
          /\ call' = Called("predict", symptoms, predict(symptoms))
          /\ vectorizer' = IF model_loaded THEN fit_transform({preprocess_symptoms(symptoms)})
                           ELSE vectorizer
    /\ UNCHANGED <<csv, classifier_pkl, vectorizer_pkl, classifier, model_loaded>>

PredictCall ==
    /\ call = Idle
    /\ UNCHANGED <<confidence_threshold, http>>
    /\ \E symptoms \in SymptomLists : call' = Called("predict", symptoms, predict(symptoms))
    /\ UNCHANGED <<csv, classifier_pkl, vectorizer_pkl, vectorizer, classifier, model_loaded>>

PredictBatchCall ==
    /\ call = Idle
    /\ UNCHANGED <<confidence_threshold, http>>
    /\ \E symptoms_list \in BatchLists : call' = Called("predict_batch", symptoms_list, predict_batch(symptoms_list))
    /\ UNCHANGED <<csv, classifier_pkl, vectorizer_pkl, vectorizer, classifier, model_loaded>>

\* ------------------------------------------------------------ the scripts
\* the scripts that construct a predictor and load the model before using it
Scripts == {"quick_test.py", "test_system.py", "cli.py", "setup.py"}

Running == [exit |-> "running"]
Completed == [exit |-> "completed"]
Uncaught(exc) == [exit |-> "uncaught", raised |-> exc]

\* symptom lists of the test cases of the scripts
test_cases == << <<dry_skin, fear>>, <<anger, acne>>, <<greed, cysts>> >>

\* result[key] on the dict predict returned
subscript(result, key) == IF key \in DOMAIN result THEN [ok |-> result[key]] ELSE Raised("KeyError")

\* for each case: result = predictor.predict(symptoms), then result['prediction']
\* is read outside any try; the loop ends with the script or with the
\* exception that leaves it
RECURSIVE predict_and_print(_)
predict_and_print(cases) ==
    IF cases = <<>> THEN Completed
    ELSE LET result == predict(Head(cases))
             prediction == IF IsRaised(result) THEN result ELSE subscript(result, "prediction")
         IN IF IsRaised(prediction) THEN Uncaught(prediction.raised)
            ELSE predict_and_print(Tail(cases))

\* a script starts: predictor = AyurvedicPredictor(); predictor.load_model()
StartScript ==
    /\ call = Idle
    /\ \E script \in Scripts :
          call' = [op |-> script, args |-> <<>>, ret |-> Running, was_loaded |-> FALSE]
    /\ classifier' = IF classifier_pkl = NoFile THEN UnfittedClassifier ELSE classifier_pkl
    /\ vectorizer' = IF classifier_pkl = NoFile \/ vectorizer_pkl = NoFile
                     THEN UnfittedVectorizer ELSE vectorizer_pkl
    /\ model_loaded' = (classifier_pkl # NoFile /\ vectorizer_pkl # NoFile)
    /\ confidence_threshold' = [num |-> ThresholdNum, den |-> ThresholdDen]
    /\ UNCHANGED <<csv, classifier_pkl, vectorizer_pkl, http>>

\* quick_test.py after load_model: the loop over test_cases
quick_test ==
    /\ call.op = "quick_test.py" /\ call.ret = Running
    /\ call' = [call EXCEPT !.ret = predict_and_print(test_cases)]
    /\ UNCHANGED <<csv, classifier_pkl, vectorizer_pkl, vectorizer, classifier, model_loaded,
                   confidence_threshold, http>>

\* test_system.py after test_model_loading: test_classic_cases reads
\* result['prediction'] outside any try; the later tests and the report follow
run_comprehensive_test ==
    /\ call.op = "test_system.py" /\ call.ret = Running
    /\ call' = [call EXCEPT !.ret = predict_and_print(test_cases)]
    /\ UNCHANGED <<csv, classifier_pkl, vectorizer_pkl, vectorizer, classifier, model_loaded,
                   confidence_threshold, http>>

\* cli.py main after load_model: returns when the model is not loaded, else
\* predicts the symptoms of the command line and formats the result
main ==
    /\ call.op = "cli.py" /\ call.ret = Running
    /\ IF ~model_loaded
       THEN call' = [call EXCEPT !.ret = Completed]
       ELSE \E symptoms \in Range(test_cases) :
               call' = [call EXCEPT !.args = symptoms, !.ret = predict_and_print(<<symptoms>>)]
    /\ UNCHANGED <<csv, classifier_pkl, vectorizer_pkl, vectorizer, classifier, model_loaded,
                   confidence_threshold, http>>

\* setup.py test_system after load_model: returns False when the model is not
\* loaded, else predicts inside its try block
test_system ==
    /\ call.op = "setup.py" /\ call.ret = Running
    /\ IF ~model_loaded
       THEN call' = [call EXCEPT !.ret = [exit |-> "completed", returned |-> FALSE]]
       ELSE LET outcome == predict_and_print(<<test_cases[1]>>)
            IN call' = [call EXCEPT !.ret = [exit |-> "completed", returned |-> outcome = Completed]]
    /\ UNCHANGED <<csv, classifier_pkl, vectorizer_pkl, vectorizer, classifier, model_loaded,
                   confidence_threshold, http>>

\* the caller has taken the returned value and goes on to its next statement
Return ==
    /\ call # Idle
    /\ call.op \in Scripts => call.ret # Running
    /\ call' = Idle
    /\ UNCHANGED <<confidence_threshold, http>>
    /\ UNCHANGED <<csv, classifier_pkl, vectorizer_pkl, vectorizer, classifier, model_loaded>>

Next ==
    \/ NewPredictor
    \/ CreateDataset
    \/ RemoveFile
    \/ train_model
    \/ load_model
    \/ PredictCall
    \/ PredictBatchCall
    \/ StartScript
    \/ quick_test
    \/ run_comprehensive_test
    \/ main
    \/ test_system
    \/ Return

Spec == Init /\ [][Next]_vars

TypeOK ==
    /\ model_loaded \in BOOLEAN
    /\ vectorizer.fitted \in BOOLEAN
    /\ classifier.fitted \in BOOLEAN
    /\ model_loaded => classifier.fitted /\ vectorizer.fitted

\* ------------------------------------------------- web service at work
\* request bodies sent to /predict
PredictBodies ==
    {Malformed,
     JObject(NoMembers),
     JObject("symptoms" :> JArray(<<JString(<<" ">>)>>)),
     JObject("symptoms" :> JArray(<<JString(<<" ">> \o dry_skin), JString(Anger)>>)),
     JObject("symptoms" :> JArray(<<JString(fear), JNumber(5)>>))}

\* request bodies sent to /batch_predict
BatchBodies ==
    {JNull,
     JObject("symptoms_list" :> JArray(<<>>)),
     JObject("symptoms_list" :> JArray(<<JArray(<<>>)>>)),
     JObject("symptoms_list" :> JArray(<<JArray(<<JString(headache)>>), JArray(<<JString(<<" ">>)>>)>>)),
     JObject("symptoms_list" :> JArray(<<JArray(<<JString(stroke)>>), JNumber(5)>>))}

\* the artifacts train_model writes for the dataset of one draw
Trained(draw) ==
    LET df == Datasets[draw]
    IN [csv |-> df,
        classifier_pkl |-> fit(df),
        vectorizer_pkl |-> fit_transform({r.symptoms : r \in Range(df.rows)})]

\* the working directory the service is started in: nothing trained, a
\* trained model, or a trained model whose vectorizer file is gone
StartFiles ==
    {[csv |-> NoFile, classifier_pkl |-> NoFile, vectorizer_pkl |-> NoFile]}
    \cup {Trained(draw) : draw \in 0..(MaxDraw - 1)}
    \cup {[Trained(0) EXCEPT !.vectorizer_pkl = NoFile]}

\* the module is imported: predictor = AyurvedicPredictor(); predictor.load_model()
HttpInit ==
    /\ \E files \in StartFiles :
          /\ csv = files.csv
          /\ classifier_pkl = files.classifier_pkl
          /\ vectorizer_pkl = files.vectorizer_pkl
    /\ classifier = IF classifier_pkl = NoFile THEN UnfittedClassifier ELSE classifier_pkl
    /\ vectorizer = IF classifier_pkl = NoFile \/ vectorizer_pkl = NoFile
                    THEN UnfittedVectorizer ELSE vectorizer_pkl
    /\ model_loaded = (classifier_pkl # NoFile /\ vectorizer_pkl # NoFile)
    /\ confidence_threshold = [num |-> ThresholdNum, den |-> ThresholdDen]
    /\ call = Idle
    /\ http = [thread \in Threads |-> NoRequest]

\* the request is answered: what was asked, what is sent back, and the
\* symptom lists predictor.predict was called with on the way
Done(request, response, invoked) ==
    [pc |-> "done", request |-> request, response |-> response, invoked |-> invoked]

\* the symptom list the /predict view calls predictor.predict with, if it
\* gets that far
predict_calls(body) ==
    LET symptoms == IF body.type = "object" THEN get(body, "symptoms", JArray(<<>>)) ELSE JNull
    IN IF falsy(symptoms) \/ IsRaised(strip_symptoms(symptoms)) THEN {}
       ELSE IF strip_symptoms(symptoms).ok = <<>> THEN {}
       ELSE {strip_symptoms(symptoms).ok}

\* the symptom list of a batch entry, when it is a list of strings
predict_batch_calls(entry) ==
    IF entry.type = "array" /\ \A i \in DOMAIN entry.value : entry.value[i].type = "string"
    THEN {[i \in DOMAIN entry.value |-> entry.value[i].value]}
    ELSE {}

\* variant: a request that ends in an error marks the predictor unloaded
HttpPredictResets(thread) ==
    /\ http[thread] = NoRequest
    /\ \E body \in PredictBodies :
          /\ http' = [http EXCEPT ![thread] =
                         Done([route |-> "/predict", body |-> body],
                              dispatch_request(predict_view(body)),
                              predict_calls(body))]
          /\ model_loaded' = IF "error" \in DOMAIN predict_view(body).json THEN FALSE ELSE model_loaded
    /\ UNCHANGED <<csv, classifier_pkl, vectorizer_pkl, vectorizer, classifier,
                   confidence_threshold, call>>

\* POST /predict handled by a free worker thread
HttpPredict(thread) ==
    /\ http[thread] = NoRequest
    /\ \E body \in PredictBodies :
          http' = [http EXCEPT ![thread] =
                      Done([route |-> "/predict", body |-> body],
                           dispatch_request(predict_view(body)),
                           predict_calls(body))]
    /\ UNCHANGED <<csv, classifier_pkl, vectorizer_pkl, vectorizer, classifier, model_loaded,
                   confidence_threshold, call>>

\* POST /batch_predict taken by a free worker thread, up to the call of
\* predict_batch
HttpBatchPredict(thread) ==
    /\ http[thread] = NoRequest
    /\ \E body \in BatchBodies :
          LET request == [route |-> "/batch_predict", body |-> body]
              symptoms_list == IF body.type = "object"
                               THEN get(body, "symptoms_list", JArray(<<>>)) ELSE JNull
          IN http' = [http EXCEPT ![thread] =
                 IF falsy(symptoms_list) \/ symptoms_list.type # "array"
                 THEN Done(request, dispatch_request(batch_predict_view(body)), {})
                 ELSE [pc |-> "predict_batch", request |-> request,
                       symptoms_list |-> symptoms_list.value, results |-> <<>>, invoked |-> {}]]
    /\ UNCHANGED <<csv, classifier_pkl, vectorizer_pkl, vectorizer, classifier, model_loaded,
                   confidence_threshold, call>>

\* one turn of the loop of predict_batch in a worker thread, or the return of
\* the view when the loop is over
HttpBatchStep(thread) ==
    /\ http[thread].pc = "predict_batch"
    /\ LET at == http[thread]
           n == Len(at.results)
       IN IF n = Len(at.symptoms_list)
          THEN http' = [http EXCEPT ![thread] =
                           Done(at.request, dispatch_request(jsonify([predictions |-> at.results])), at.invoked)]
          ELSE LET entry == at.symptoms_list[n + 1]
                   result == predict_value(entry)
                   invoked == at.invoked \cup predict_batch_calls(entry)
               IN http' = [http EXCEPT ![thread] =
                     IF IsRaised(result)
                     THEN Done(at.request, dispatch_request(except_Exception(result)), invoked)
                     ELSE [at EXCEPT !.results = Append(at.results, result), !.invoked = invoked]]
    /\ UNCHANGED <<csv, classifier_pkl, vectorizer_pkl, vectorizer, classifier, model_loaded,
                   confidence_threshold, call>>

\* GET /health handled by a free worker thread
HttpHealth(thread) ==
    /\ http[thread] = NoRequest
    /\ http' = [http EXCEPT ![thread] =
                   Done([route |-> "/health", body |-> JNull], dispatch_request(health_check), {})]
    /\ UNCHANGED <<csv, classifier_pkl, vectorizer_pkl, vectorizer, classifier, model_loaded,
                   confidence_threshold, call>>

\* GET / handled by a free worker thread
HttpHome(thread) ==
    /\ http[thread] = NoRequest
    /\ http' = [http EXCEPT ![thread] =
                   Done([route |-> "/", body |-> JNull], dispatch_request(home), {})]
    /\ UNCHANGED <<csv, classifier_pkl, vectorizer_pkl, vectorizer, classifier, model_loaded,
                   confidence_threshold, call>>

\* the response is sent and the worker thread is free again
HttpSend(thread) ==
    /\ http[thread].pc = "done"
    /\ http' = [http EXCEPT ![thread] = NoRequest]
    /\ UNCHANGED <<csv, classifier_pkl, vectorizer_pkl, vectorizer, classifier, model_loaded,
                   confidence_threshold, call>>

HttpNext ==
    \E thread \in Threads :
        \/ HttpPredict(thread)
        \/ HttpBatchPredict(thread)
        \/ HttpBatchStep(thread)
        \/ HttpHealth(thread)
        \/ HttpHome(thread)
        \/ HttpSend(thread)

SpecHttp == HttpInit /\ [][HttpNext]_vars

\* ---------------------------------------------- dataset creator at work
\* a call that has not returned yet
Pending == [pending |-> TRUE]

\* the calls made on a SymptomDatasetCreator
DataCalls ==
    {[op |-> "generate_symptom_combinations",
      args |-> [symptoms |-> all_symptoms[dosha], dosha |-> dosha, num_combinations |-> n, rng |-> rng],
      ret |-> Pending, was_loaded |-> FALSE] :
        dosha \in Range(Doshas), n \in 0..MaxRecords, rng \in [seed : 0..(MaxDraw - 1), offset : 0..MaxOffset]}
    \cup {[op |-> "create_mixed_combinations",
           args |-> [num_combinations |-> n, rng |-> rng],
           ret |-> Pending, was_loaded |-> FALSE] : n \in 0..MaxRecords, rng \in [seed : 0..(MaxDraw - 1), offset : 0..MaxOffset]}
    \cup {[op |-> "create_no_match_cases",
           args |-> [num_cases |-> n, rng |-> rng],
           ret |-> Pending, was_loaded |-> FALSE] : n \in 0..MaxRecords, rng \in [seed : 0..(MaxDraw - 1), offset : 0..MaxOffset]}
    \cup {[op |-> "create_comprehensive_dataset",
           args |-> [draw |-> draw],
           ret |-> Pending, was_loaded |-> FALSE] : draw \in 0..(MaxDraw - 1)}

DataInit ==
    /\ csv = NoFile
    /\ classifier_pkl = NoFile
    /\ vectorizer_pkl = NoFile
    /\ vectorizer = UnfittedVectorizer
    /\ classifier = UnfittedClassifier
    /\ model_loaded = FALSE
    /\ confidence_threshold = [num |-> ThresholdNum, den |-> ThresholdDen]
    /\ call \in DataCalls
    /\ http = [thread \in Threads |-> NoRequest]

GenerateSymptomCombinations ==
    /\ call.op = "generate_symptom_combinations"
    /\ call.ret = Pending
    /\ call' = [call EXCEPT !.ret = generate_symptom_combinations(
                    call.args.symptoms, call.args.dosha, call.args.num_combinations, call.args.rng)]
    /\ UNCHANGED <<csv, classifier_pkl, vectorizer_pkl, vectorizer, classifier, model_loaded,
                   confidence_threshold, http>>

CreateMixedCombinations ==
    /\ call.op = "create_mixed_combinations"
    /\ call.ret = Pending
    /\ call' = [call EXCEPT !.ret = create_mixed_combinations(call.args.num_combinations, call.args.rng)]
    /\ UNCHANGED <<csv, classifier_pkl, vectorizer_pkl, vectorizer, classifier, model_loaded,
                   confidence_threshold, http>>

CreateNoMatchCases ==
    /\ call.op = "create_no_match_cases"
    /\ call.ret = Pending
    /\ call' = [call EXCEPT !.ret = create_no_match_cases(call.args.num_cases, call.args.rng)]
    /\ UNCHANGED <<csv, classifier_pkl, vectorizer_pkl, vectorizer, classifier, model_loaded,
                   confidence_threshold, http>>

\* create_comprehensive_dataset(): the file is written and the rows are returned
CreateComprehensiveDataset ==
    /\ call.op = "create_comprehensive_dataset"
    /\ call.ret = Pending
    /\ csv' = create_comprehensive_dataset(call.args.draw)
    /\ call' = [call EXCEPT !.ret = [ok |-> csv'.rows]]
    /\ UNCHANGED <<classifier_pkl, vectorizer_pkl, vectorizer, classifier, model_loaded,
                   confidence_threshold, http>>

DataNext ==
    \/ GenerateSymptomCombinations
    \/ CreateMixedCombinations
    \/ CreateNoMatchCases
    \/ CreateComprehensiveDataset

SpecData == DataInit /\ [][DataNext]_vars

\* ------------------------------------------------- command line at work
\* str.split(sep): the pieces between the separators, empty pieces kept
RECURSIVE split(_, _, _, _)
split(text, sep, piece, acc) ==
    IF text = <<>> THEN Append(acc, piece)
    ELSE IF Head(text) = sep THEN split(Tail(text), sep, <<>>, Append(acc, piece))
    ELSE split(Tail(text), sep, Append(piece, Head(text)), acc)

\* [s.strip().lower() for s in user_input.split(',') if s.strip()]
parse_symptoms(user_input) ==
    LET pieces == SelectSeq(split(user_input, ",", <<>>, <<>>), LAMBDA piece : strip(piece) # <<>>)
    IN [i \in 1..Len(pieces) |-> lower(strip(pieces[i]))]

\* the words the interactive loop knows
QuitWords == {<<"q", "u", "i", "t">>, <<"e", "x", "i", "t">>, <<"q">>}
HelpWords == {<<"h", "e", "l", "p">>, <<"h">>}
InfoWords == {<<"i", "n", "f", "o">>, <<"d", "o", "s", "h", "a", "s">>}

\* what input() yields: a line typed, the interrupt key, or the end of input
NoEvent == [kind |-> "none", text |-> <<>>]
KeyboardInterrupt == [kind |-> "KeyboardInterrupt", text |-> <<>>]
EOFError == [kind |-> "EOFError", text |-> <<>>]

\* lines typed at the prompt
InputLines ==
    {<<"q", "u", "i", "t">>,
     <<"Q", "U", "I", "T">>,
     <<" ", "e", "x", "i", "t", " ">>,
     <<"q">>,
     <<"h", "e", "l", "p">>,
     <<"H">>,
     <<"i", "n", "f", "o">>,
     <<"D", "o", "s", "h", "a", "s">>,
     <<>>,
     <<" ", " ">>,
     <<" ", ",", " ">>,
     <<"D", "r", "y", " ", "S", "k", "i", "n", ",", " ", "a", "n", "g", "e", "r">>,
     <<"f", "e", "a", "r", ",", ",">>,
     <<"q", "u", "i", "t", ",">>,
     <<"h", "e", "a", "d", "a", "c", "h", "e">>}

\* variant: the quit words are recognised in lower case only
interactive_mode_exact_case(event) ==
    IF event.kind = "KeyboardInterrupt"
    THEN [loop |-> "break", predicted |-> <<>>, printed |-> "Goodbye!"]
    ELSE IF event.kind = "EOFError"
    THEN [loop |-> "continue", predicted |-> <<>>, printed |-> "Error"]
    ELSE LET user_input == strip(event.text)
         IN IF user_input \in QuitWords
            THEN [loop |-> "break", predicted |-> <<>>, printed |-> "Goodbye!"]
            ELSE IF lower(user_input) \in HelpWords
            THEN [loop |-> "continue", predicted |-> <<>>, printed |-> "EXAMPLE SYMPTOM COMBINATIONS"]
            ELSE IF lower(user_input) \in InfoWords
            THEN [loop |-> "continue", predicted |-> <<>>, printed |-> "print_dosha_info"]
            ELSE IF user_input = <<>>
            THEN [loop |-> "continue", predicted |-> <<>>, printed |-> "Please enter some symptoms."]
            ELSE LET symptoms == parse_symptoms(user_input)
                 IN IF symptoms = <<>>
                    THEN [loop |-> "continue", predicted |-> <<>>,
                          printed |-> "Please enter valid symptoms."]
                    ELSE [loop |-> "continue", predicted |-> <<symptoms>>,
                          printed |-> IF predict_and_print(<<symptoms>>).exit = "completed"
                                      THEN "format_prediction_result" ELSE "Error"]

\* one pass of the loop of interactive_mode on what input() yields: whether
\* the loop goes on, the symptom lists passed to predict, and what is printed
interactive_mode(event) ==
    IF event.kind = "KeyboardInterrupt"
    THEN [loop |-> "break", predicted |-> <<>>, printed |-> "Goodbye!"]
    ELSE IF event.kind = "EOFError"
    THEN [loop |-> "continue", predicted |-> <<>>, printed |-> "Error"]
    ELSE LET user_input == strip(event.text)
         IN IF lower(user_input) \in QuitWords
            THEN [loop |-> "break", predicted |-> <<>>, printed |-> "Goodbye!"]
            ELSE IF lower(user_input) \in HelpWords
            THEN [loop |-> "continue", predicted |-> <<>>, printed |-> "EXAMPLE SYMPTOM COMBINATIONS"]
            ELSE IF lower(user_input) \in InfoWords
            THEN [loop |-> "continue", predicted |-> <<>>, printed |-> "print_dosha_info"]
            ELSE IF user_input = <<>>
            THEN [loop |-> "continue", predicted |-> <<>>, printed |-> "Please enter some symptoms."]
            ELSE LET symptoms == parse_symptoms(user_input)
                 IN IF symptoms = <<>>
                    THEN [loop |-> "continue", predicted |-> <<>>,
                          printed |-> "Please enter valid symptoms."]
                    ELSE [loop |-> "continue", predicted |-> <<symptoms>>,
                          printed |-> IF predict_and_print(<<symptoms>>).exit = "completed"
                                      THEN "format_prediction_result" ELSE "Error"]


\* the command lines cli.py is started with; args.symptoms is None (not
\* given) or the list that follows --symptoms
CliArgs ==
    [version : BOOLEAN, info : BOOLEAN, interactive : BOOLEAN,
     symptoms : {[given |-> FALSE, list |-> <<>>],
                 [given |-> TRUE, list |-> <<Anger, dry_skin>>],
                 [given |-> TRUE, list |-> <<headache>>]}]

\* cli.py is started in a working directory; no predictor exists yet
CliInit ==
    /\ \E files \in StartFiles :
          /\ csv = files.csv
          /\ classifier_pkl = files.classifier_pkl
          /\ vectorizer_pkl = files.vectorizer_pkl
    /\ vectorizer = UnfittedVectorizer
    /\ classifier = UnfittedClassifier
    /\ model_loaded = FALSE
    /\ confidence_threshold = [num |-> ThresholdNum, den |-> ThresholdDen]
    /\ \E args \in CliArgs :
          call = [op |-> "cli.py", args |-> args, pc |-> "main", did |-> <<>>,
                  event |-> NoEvent, predicted |-> <<>>, printed |-> "", was_loaded |-> FALSE]
    /\ http = [thread \in Threads |-> NoRequest]

\* main up to load_model: --version and --info return at once; otherwise the
\* predictor is constructed and load_model is called
CliStart ==
    /\ call.pc = "main"
    /\ IF call.args.version
       THEN /\ call' = [call EXCEPT !.pc = "returned", !.did = <<"version">>,
                                    !.printed = "Ayurvedic Health Monitoring System v1.0"]
            /\ UNCHANGED <<vectorizer, classifier, model_loaded>>
       ELSE IF call.args.info
       THEN /\ call' = [call EXCEPT !.pc = "returned", !.did = <<"info">>,
                                    !.printed = "print_dosha_info"]
            /\ UNCHANGED <<vectorizer, classifier, model_loaded>>
       ELSE /\ call' = [call EXCEPT !.pc = "loaded", !.did = <<"load_model">>,
                                    !.printed = "Loading AI model..."]
            /\ classifier' = IF classifier_pkl = NoFile THEN UnfittedClassifier ELSE classifier_pkl
            /\ vectorizer' = IF classifier_pkl = NoFile \/ vectorizer_pkl = NoFile
                             THEN UnfittedVectorizer ELSE vectorizer_pkl
            /\ model_loaded' = (classifier_pkl # NoFile /\ vectorizer_pkl # NoFile)
    /\ UNCHANGED <<csv, classifier_pkl, vectorizer_pkl, confidence_threshold, http>>

\* variant: --symptoms is looked at before --interactive
CliMainSymptomsFirst ==
    /\ call.pc = "loaded"
    /\ IF ~model_loaded
       THEN call' = [call EXCEPT !.pc = "returned", !.did = Append(@, "model_not_found"),
                                 !.printed = "Model not found."]
       ELSE IF call.args.symptoms.given
       THEN LET symptoms == [i \in DOMAIN call.args.symptoms.list |-> lower(call.args.symptoms.list[i])]
            IN call' = [call EXCEPT !.pc = "returned", !.did = Append(@, "predict_from_args"),
                                    !.predicted = <<symptoms>>,
                                    !.printed = IF predict_and_print(<<symptoms>>).exit = "completed"
                                                THEN "format_prediction_result" ELSE "Traceback"]
       ELSE IF call.args.interactive
       THEN call' = [call EXCEPT !.pc = "prompt", !.did = Append(@, "interactive_mode"),
                                 !.printed = "INTERACTIVE MODE"]
       ELSE call' = [call EXCEPT !.pc = "prompt",
                                 !.did = @ \o <<"print_help", "interactive_mode">>,
                                 !.printed = "INTERACTIVE MODE"]
    /\ UNCHANGED <<csv, classifier_pkl, vectorizer_pkl, vectorizer, classifier, model_loaded,
                   confidence_threshold, http>>

\* main after load_model: the message when the model is not loaded, else
\* interactive mode, else the prediction for --symptoms, else help and
\* interactive mode
CliMain ==
    /\ call.pc = "loaded"
    /\ IF ~model_loaded
       THEN call' = [call EXCEPT !.pc = "returned", !.did = Append(@, "model_not_found"),
                                 !.printed = "Model not found."]
       ELSE IF call.args.interactive
       THEN call' = [call EXCEPT !.pc = "prompt", !.did = Append(@, "interactive_mode"),
                                 !.printed = "INTERACTIVE MODE"]
       ELSE IF call.args.symptoms.given
       THEN LET symptoms == [i \in DOMAIN call.args.symptoms.list |-> lower(call.args.symptoms.list[i])]
            IN call' = [call EXCEPT !.pc = "returned", !.did = Append(@, "predict_from_args"),
                                    !.predicted = <<symptoms>>,
                                    !.printed = IF predict_and_print(<<symptoms>>).exit = "completed"
                                                THEN "format_prediction_result" ELSE "Traceback"]
       ELSE call' = [call EXCEPT !.pc = "prompt",
                                 !.did = @ \o <<"print_help", "interactive_mode">>,
                                 !.printed = "INTERACTIVE MODE"]
    /\ UNCHANGED <<csv, classifier_pkl, vectorizer_pkl, vectorizer, classifier, model_loaded,
                   confidence_threshold, http>>

\* the interactive loop reads what input() yields and handles it
InteractiveMode ==
    /\ call.pc = "prompt"
    /\ \E event \in {[kind |-> "line", text |-> text] : text \in InputLines}
                      \cup {KeyboardInterrupt, EOFError} :
          LET pass == interactive_mode(event)
          IN call' = [call EXCEPT !.pc = IF pass.loop = "break" THEN "returned" ELSE "prompt",
                                  !.event = event,
                                  !.predicted = pass.predicted,
                                  !.printed = pass.printed]
    /\ UNCHANGED <<csv, classifier_pkl, vectorizer_pkl, vectorizer, classifier, model_loaded,
                   confidence_threshold, http>>

CliNext ==
    \/ CliStart
    \/ CliMain
    \/ InteractiveMode

SpecCli == CliInit /\ [][CliNext]_vars

\* ================================================================ claims
Saved == "Model and vectorizer saved successfully!"
FilesNotFound == "Model files not found. Please train the model first."

\* the calls made on a predictor instance after its construction
PredictorCalls == {"load_model", "train_model", "predict", "predict_batch"}

\* the last call was predict, on a loaded predictor, and returned a result
PredictedLoaded == call.op = "predict" /\ call.was_loaded /\ "prediction" \in DOMAIN call.ret

\* the classifier output behind the result of the last predict call
LastProbabilities == predict_proba(classifier, transform(vectorizer, preprocess_symptoms(call.args)))

Abs(x) == IF x < 0 THEN -x ELSE x

\* C1 as stated: after train_model has completed on an unloaded predictor,
\* model_loaded is true and predict returns a prediction result.
C1_TrainLoads ==
    (call.op = "train_model" /\ call.ret.status = Saved /\ ~call.was_loaded)
        => (model_loaded /\ \A symptoms \in SymptomLists : "prediction" \in DOMAIN predict(symptoms))

\* C1 amended: after train_model has completed on an unloaded predictor both
\* artifacts are on disk and hold what was fitted, but model_loaded is still
\* false and predict returns the not-loaded error for every symptom list.
C1_TrainLeavesUnloaded ==
    (call.op = "train_model" /\ call.ret.status = Saved /\ ~call.was_loaded)
        => /\ ~model_loaded
           /\ classifier_pkl = classifier /\ classifier.fitted
           /\ vectorizer_pkl = vectorizer /\ vectorizer.fitted
           /\ \A symptoms \in SymptomLists : predict(symptoms) = NotLoaded

C1_Witness == call.op = "train_model" /\ call.ret.status = Saved /\ ~call.was_loaded

\* C2 as stated: once model_loaded is true it stays true after every
\* load_model, train_model, predict and predict_batch call.
C2_NoWayOutOfLoaded ==
    [][(model_loaded /\ call'.op \in PredictorCalls) => model_loaded']_vars

\* C2 amended: a loaded predictor stays loaded after every train_model,
\* predict and predict_batch call and after every load_model call made while
\* both artifact files are present; a load_model call made while an artifact
\* file is missing sets model_loaded to false.
C2_LoadedUntilFailedLoad ==
    [][(model_loaded /\ call'.op \in PredictorCalls)
        => (model_loaded' <=> ~(call'.op = "load_model"
                                 /\ (classifier_pkl = NoFile \/ vectorizer_pkl = NoFile)))]_vars

C2_Witness == call.op = "load_model" /\ call.was_loaded /\ ~model_loaded

\* C3: load_model on an unloaded predictor leaves it loaded exactly when both
\* artifact files are present; otherwise it stays unloaded, the failure is
\* the printed message and no exception leaves the call.
C3_LoadIffBothFiles ==
    [][(call'.op = "load_model" /\ ~model_loaded)
        => /\ model_loaded' <=> (classifier_pkl # NoFile /\ vectorizer_pkl # NoFile)
           /\ "raised" \notin DOMAIN call'.ret
           /\ ~model_loaded' => call'.ret.status = FilesNotFound]_vars

C3_Witness ==
    /\ call.op = "load_model" /\ ~call.was_loaded /\ ~model_loaded
    /\ classifier_pkl # NoFile /\ vectorizer_pkl = NoFile

\* C4: predict on an unloaded predictor returns the error result, with an
\* error field and no prediction, raises nothing and leaves the vectorizer and
\* the classifier alone; predict_batch returns one such result per entry.
C4_UnloadedPredictIsError ==
    [][/\ (call'.op = "predict" /\ ~model_loaded)
            => /\ DOMAIN call'.ret = {"error"}
               /\ call'.ret = NotLoaded
               /\ vectorizer' = vectorizer /\ classifier' = classifier
       /\ (call'.op = "predict_batch" /\ ~model_loaded)
            => /\ Len(call'.ret) = Len(call'.args)
               /\ \A i \in 1..Len(call'.ret) : DOMAIN call'.ret[i] = {"error"}
               /\ vectorizer' = vectorizer /\ classifier' = classifier]_vars

C4_Witness ==
    /\ call.op = "predict_batch" /\ ~call.was_loaded /\ Len(call.args) = 2
    /\ ~classifier.fitted /\ call.ret = <<NotLoaded, NotLoaded>>

\* C5: on a loaded predictor, when the largest class probability is at least
\* 0.3 the prediction is a label holding that probability and the confidence
\* is that probability as a percentage with two decimals; when it is below
\* 0.3 the prediction is the sentinel with the fixed confidence text.
C5_ThresholdDecides ==
    PredictedLoaded =>
        LET p == LastProbabilities
            den == Sum(p)
            best == CHOOSE x \in Range(p) : \A y \in Range(p) : y <= x
        IN IF best * ThresholdDen >= ThresholdNum * den
           THEN /\ \E i \in DOMAIN p : p[i] = best /\ call.ret.prediction = classifier.classes_[i]
                /\ Len(call.ret.confidence) = 2 /\ call.ret.confidence[2] = "%"
                /\ 2 * Abs(call.ret.confidence[1] * den - best * 10000) <= den
           ELSE /\ call.ret.prediction = Sentinel
                /\ call.ret.confidence = <<LowConfidence>>

\* the largest probability is exactly 0.3 and the arg-max label is returned
C5_Witness ==
    /\ PredictedLoaded
    /\ LET p == LastProbabilities
       IN \E i \in DOMAIN p : /\ \A j \in DOMAIN p : p[j] <= p[i]
                              /\ p[i] * ThresholdDen = ThresholdNum * Sum(p)
    /\ call.ret.prediction # Sentinel

\* C6: the prediction of every successful predict is vata, pitta, kapha or
\* the sentinel; no_match is never a class of the classifier, never a key of
\* dosha_percentages and never the prediction.
C6_NoMatchNeverAClass ==
    /\ "no_match" \notin Range(classifier.classes_)
    /\ PredictedLoaded =>
          /\ call.ret.prediction \in {"vata", "pitta", "kapha", Sentinel}
          /\ "no_match" \notin DOMAIN call.ret.dosha_percentages

\* C7: for the classes of a loaded predictor there is a probability vector
\* (non-negative, summing to 1) whose every entry, the largest included, is
\* below the threshold, which predict resolves to the sentinel.
C7_LowConfidenceReachable ==
    model_loaded =>
        \E p \in [1..Len(classifier.classes_) -> 0..MaxVotes] :
            /\ Sum(p) > 0
            /\ \A i \in DOMAIN p : below_threshold(p[i], Sum(p))

C7_Witness ==
    /\ PredictedLoaded
    /\ call.ret.prediction = Sentinel
    /\ \A i \in DOMAIN LastProbabilities :
          LastProbabilities[i] * ThresholdDen < ThresholdNum * Sum(LastProbabilities)

\* C8: for a non-empty symptom list on a loaded predictor the keys of
\* dosha_percentages are exactly the labels of the dataset the classifier was
\* fitted on, and every value is between 0 and 100.
C8_PercentageKeys ==
    (call.op = "predict" /\ call.was_loaded /\ call.args # <<>>) =>
        /\ "dosha_percentages" \in DOMAIN call.ret
        /\ DOMAIN call.ret.dosha_percentages
              = {r.dosha : r \in Range(Datasets[classifier.forest].rows)}
        /\ \A dosha \in DOMAIN call.ret.dosha_percentages :
              call.ret.dosha_percentages[dosha] \in 0..10000

\* a class of probability zero is still a key
C8_Witness ==
    /\ call.op = "predict" /\ call.was_loaded /\ call.args # <<>>
    /\ \E dosha \in DOMAIN call.ret.dosha_percentages : call.ret.dosha_percentages[dosha] = 0

\* C9: the values of dosha_percentages are each within half a hundredth of
\* the exact percentage, so their sum is 100 up to half a hundredth per class
\* (at most two hundredths for the four classes).
C9_PercentagesSum ==
    PredictedLoaded =>
        LET p == LastProbabilities
            pct == call.ret.dosha_percentages
        IN /\ \A i \in DOMAIN p :
                2 * Abs(pct[classifier.classes_[i]] * Sum(p) - p[i] * 10000) <= Sum(p)
           /\ 2 * Abs(Sum(pct) - 10000) <= Cardinality(DOMAIN pct)
           /\ Abs(Sum(pct) - 10000) <= 2

\* the rounded values do not sum to 100.00
C9_Witness == PredictedLoaded /\ Sum(call.ret.dosha_percentages) # 10000

\* C10: predict_batch on N symptom lists returns N results and the i-th is
\* the result of predict on the i-th list alone.
C10_BatchIsIndependent ==
    call.op = "predict_batch" =>
        /\ Len(call.ret) = Len(call.args)
        /\ \A i \in 1..Len(call.args) : call.ret[i] = predict(call.args[i])

C10_Witness ==
    /\ call.op = "predict_batch" /\ call.was_loaded /\ Len(call.args) = 2
    /\ call.ret[1] # call.ret[2]
    /\ "prediction" \in DOMAIN call.ret[1]

\* C11: a predict call on a loaded predictor changes none of model_loaded,
\* confidence_threshold, the vectorizer and the classifier, and in the state
\* the call leaves a second call with the same input returns what the first
\* call returned.
C11_PredictIsIdempotent ==
    [][/\ (call'.op = "predict" /\ model_loaded)
            => /\ model_loaded' = model_loaded
               /\ confidence_threshold' = confidence_threshold
               /\ vectorizer' = vectorizer
               /\ classifier' = classifier
       /\ (call.op = "predict" /\ call.was_loaded)
            => predict(call.args) = call.ret]_vars

\* a non-empty list was predicted on a loaded predictor, and asking again
\* gives the same result
C11_Witness ==
    /\ call.op = "predict" /\ call.was_loaded /\ model_loaded
    /\ Len(call.args) = 2 /\ "prediction" \in DOMAIN call.ret
    /\ predict(call.args) = call.ret

\* the fields of a prediction result
ResultFields == {"prediction", "confidence", "dosha_percentages", "symptoms_analyzed", "recommendation"}

\* the last call was predict([]) on a loaded predictor
PredictedEmpty == call.op = "predict" /\ call.was_loaded /\ call.args = <<>>

C13_EmptyInputIsError ==
    PredictedEmpty => "error" \in DOMAIN call.ret

\* the requests to /predict and /batch_predict that are being answered or
\* have been answered
Answering == {thread \in Threads : http[thread].pc \in {"predict_batch", "done"}
                                    /\ http[thread].request.route \in {"/predict", "/batch_predict"}}

Answered == {thread \in Answering : http[thread].pc = "done"}

\* C14: no request to /predict or /batch_predict makes the web service call
\* predictor.predict with zero symptoms: every symptom list it is called
\* with holds a symptom that is not blank (so it is never the empty list).
C14_NoEmptyListReachesPredict ==
    \A thread \in Answering :
        \A symptoms \in http[thread].invoked :
            \E i \in DOMAIN symptoms : strip(symptoms[i]) # <<>>

\* C15: every request to /predict and /batch_predict is answered with status
\* 200 and a JSON body that is a prediction result, a list of predictions
\* or an object with an error field, whatever the body of the request, the
\* state of the predictor and the exception raised on the way.
C15_AlwaysJsonAt200 ==
    \A thread \in Answered :
        LET response == http[thread].response
        IN /\ response.status = 200
           /\ DOMAIN response = {"status", "json"}
           /\ \/ "error" \in DOMAIN response.json
              \/ DOMAIN response.json = ResultFields
              \/ /\ DOMAIN response.json = {"predictions"}
                 /\ \A i \in DOMAIN response.json.predictions :
                       \/ "error" \in DOMAIN response.json.predictions[i]
                       \/ DOMAIN response.json.predictions[i] = ResultFields
           /\ http[thread].request.body.type \in {"malformed", "null"}
                 => "error" \in DOMAIN response.json
           /\ (~model_loaded /\ http[thread].request.route = "/predict")
                 => "error" \in DOMAIN response.json

\* a prediction raised on a loaded predictor and the request was answered
\* with the error
C15_Witness ==
    \E thread \in Answered :
        /\ model_loaded
        /\ http[thread].request.route = "/batch_predict"
        /\ http[thread].response = jsonify([error |-> "TypeError"])

\* the response a request gets when it is the only one being handled
Alone(request) ==
    dispatch_request(
        CASE request.route = "/predict" -> predict_view(request.body)
          [] request.route = "/batch_predict" -> batch_predict_view(request.body)
          [] request.route = "/health" -> health_check
          [] request.route = "/" -> home)

\* C17: no step of a request to /predict, /batch_predict, /health or /
\* changes model_loaded, the vectorizer, the classifier, the threshold or
\* the files, and whatever other requests are handled at the same time every
\* answered request has the response it would get alone.
C17_SharedPredictorIsReadOnly ==
    [][/\ UNCHANGED <<model_loaded, vectorizer, classifier, confidence_threshold>>
       /\ UNCHANGED <<csv, classifier_pkl, vectorizer_pkl>>
       /\ \A thread \in Threads :
             http[thread].pc = "done" => http[thread].response = Alone(http[thread].request)]_vars

\* a batch and a single prediction were handled at the same time on a
\* loaded predictor
C17_Witness ==
    \E batch, single \in Threads :
        /\ http[batch].pc = "done" /\ http[single].pc = "done"
        /\ http[batch].request.route = "/batch_predict"
        /\ http[single].request.route = "/predict"
        /\ "predictions" \in DOMAIN http[batch].response.json
        /\ Len(http[batch].response.json.predictions) = 2
        /\ "prediction" \in DOMAIN http[single].response.json

\* a script has run to its end, or to the exception that ended it
ScriptEnded == call.op \in Scripts /\ call.ret # Running

\* C16: a script that loads the model while an artifact file is absent is
\* left with an unloaded predictor and runs to its end; no exception leaves
\* it when it uses what predict returned.
C16_MissingArtifactNeverFatal ==
    (ScriptEnded /\ (classifier_pkl = NoFile \/ vectorizer_pkl = NoFile))
        => ~model_loaded /\ call.ret.exit = "completed"

\* the last predict call on a loaded predictor resolved to a category
PredictedCategory == PredictedLoaded /\ call.ret.prediction # Sentinel

\* the symptom, lower-cased, is a key of the symptom table
HasEntry(symptom) == lower(symptom) \in DOMAIN symptom_recommendations

\* the table entry of a symptom that has one
Entry(symptom) == symptom_recommendations[lower(symptom)]

\* C18: for a prediction that is not the sentinel neither
\* specific_recommendations nor remedies is empty: a list is the one general
\* line when no input symptom contributed to it, and otherwise holds one line
\* per contributing symptom and not the general line.
C18_ListsNeverEmpty ==
    PredictedCategory =>
        LET dosha == call.ret.prediction
            symptoms == call.args
            rec == call.ret.recommendation
            specific == {i \in DOMAIN symptoms :
                            /\ HasEntry(symptoms[i])
                            /\ {dosha, "all"} \cap DOMAIN Entry(symptoms[i]) # {}}
            remedy == {i \in DOMAIN symptoms :
                            HasEntry(symptoms[i]) /\ "remedy" \in DOMAIN Entry(symptoms[i])}
        IN /\ rec.specific_recommendations # <<>>
           /\ rec.remedies # <<>>
           /\ IF specific = {}
              THEN rec.specific_recommendations = <<GeneralGuidelines>>
              ELSE /\ Len(rec.specific_recommendations) = Cardinality(specific)
                   /\ GeneralGuidelines \notin Range(rec.specific_recommendations)
           /\ IF remedy = {}
              THEN rec.remedies = <<GeneralPractices>>
              ELSE /\ Len(rec.remedies) = Cardinality(remedy)
                   /\ GeneralPractices \notin Range(rec.remedies)

\* a symptom gave a remedy but no recommendation for the predicted category
C18_Witness ==
    /\ PredictedCategory
    /\ call.args # <<>>
    /\ call.ret.recommendation.specific_recommendations = <<GeneralGuidelines>>
    /\ call.ret.recommendation.remedies # <<GeneralPractices>>

AdvisoryFields == {"general", "advice", "note"}

CategoryFields == {"dosha", "diet", "lifestyle", "herbs", "yoga",
                   "specific_recommendations", "remedies", "note"}

\* C19: the recommendation of a result has the three advisory fields, with
\* the same fixed texts whatever the symptoms, exactly when the prediction is
\* the sentinel, and the eight category fields for any other prediction.
C19_TwoBundleShapes ==
    PredictedLoaded =>
        LET rec == call.ret.recommendation
        IN IF call.ret.prediction = Sentinel
           THEN DOMAIN rec = AdvisoryFields /\ rec = SentinelBundle
           ELSE DOMAIN rec = CategoryFields /\ rec.dosha = upper(call.ret.prediction)

\* the sentinel was resolved for a list holding a symptom of the table
C19_Witness ==
    /\ PredictedLoaded
    /\ call.ret.prediction = Sentinel
    /\ \E i \in DOMAIN call.args : HasEntry(call.args[i])
    /\ call.ret.recommendation = SentinelBundle

\* C20: for a category prediction the contributed lines follow the input
\* order, one per occurrence: a symptom whose lower-cased text is exactly a
\* key of the table gives "For <symptom>: <text>" with the text for the
\* predicted category or else the text for all, and, whenever its entry has a
\* remedy, one bulleted remedy line; any other symptom gives nothing.
C20_PerSymptomContributions ==
    PredictedCategory =>
        LET dosha == call.ret.prediction
            symptoms == call.args
            rec == call.ret.recommendation
            indices == [i \in DOMAIN symptoms |-> i]
            Specific(i) == /\ lower(symptoms[i]) \in DOMAIN symptom_recommendations
                           /\ \/ dosha \in DOMAIN Entry(symptoms[i])
                              \/ "all" \in DOMAIN Entry(symptoms[i])
            Remedy(i) == /\ lower(symptoms[i]) \in DOMAIN symptom_recommendations
                         /\ "remedy" \in DOMAIN Entry(symptoms[i])
            specific == SelectSeq(indices, Specific)
            remedy == SelectSeq(indices, Remedy)
            SpecificLine(i) ==
                <<"For ", symptoms[i], ": ",
                  IF dosha \in DOMAIN Entry(symptoms[i])
                  THEN Entry(symptoms[i])[dosha] ELSE Entry(symptoms[i])["all"]>>
            RemedyLine(i) ==
                <<"* ", capitalize(symptoms[i]), ": ", Entry(symptoms[i])["remedy"]>>
        IN /\ specific # <<>> =>
                rec.specific_recommendations = [k \in DOMAIN specific |-> SpecificLine(specific[k])]
           /\ remedy # <<>> =>
                rec.remedies = [k \in DOMAIN remedy |-> RemedyLine(remedy[k])]
           /\ specific = <<>> => \A k \in DOMAIN rec.specific_recommendations :
                                      rec.specific_recommendations[k][1] # "For "
           /\ remedy = <<>> => \A k \in DOMAIN rec.remedies : rec.remedies[k][1] # "* "

\* of a padded symptom and one given in capitals only the second contributed
C20_Witness ==
    /\ PredictedCategory
    /\ Len(call.args) = 2
    /\ call.args[1] = (<<" ">> \o headache)
    /\ call.args[2] = Anger
    /\ Len(call.ret.recommendation.remedies) = 1
    /\ call.ret.recommendation.remedies[1][2] = capitalize(Anger)

\* the four lists of static guidance of a category bundle

\* C21: every result whose prediction is not the sentinel has, as diet,
\* lifestyle, herbs and yoga, the non-empty lists of the entry of the
\* category table for that prediction, whatever label the classifier
\* returned.
C21_StaticGuidance ==
    PredictedCategory =>
        /\ call.ret.prediction \in DOMAIN base_recommendations
        /\ \A field \in {"diet", "lifestyle", "herbs", "yoga"} :
              /\ call.ret.recommendation[field] = base_recommendations[call.ret.prediction][field]
              /\ call.ret.recommendation[field] # <<>>

\* the strings of the corpus a symptom text is made of, in order; a rest
\* that starts with no string of the corpus is kept as the last piece
RECURSIVE Parse(_, _, _)
Parse(text, corpus, acc) ==
    IF text = <<>> THEN acc
    ELSE LET matches == {i \in DOMAIN corpus :
                            /\ Len(corpus[i]) <= Len(text)
                            /\ SubSeq(text, 1, Len(corpus[i])) = corpus[i]
                            /\ Len(corpus[i]) < Len(text) => text[Len(corpus[i]) + 1] = " "}
         IN IF matches = {} THEN Append(acc, text)
            ELSE LET word == corpus[CHOOSE i \in matches : TRUE]
                 IN Parse(SubSeq(text, Len(word) + 2, Len(text)), corpus, Append(acc, word))

\* the record is made of k distinct strings of the corpus, low <= k <= high,
\* and says so
DrawnFrom(record, corpus, low, high) ==
    LET selected == Parse(record.symptoms, corpus, <<>>)
    IN /\ Range(selected) \subseteq Range(corpus)
       /\ \A i, j \in DOMAIN selected : selected[i] = selected[j] => i = j
       /\ Len(selected) \in low..high
       /\ record.num_symptoms = Len(selected)

\* C22: every call of generate_symptom_combinations returns as many records as
\* asked, each with the given label and a text of k distinct strings of the
\* given corpus, 2 <= k <= 8, num_symptoms = k; every call of
\* create_no_match_cases returns as many records as asked, each labelled
\* no_match with k distinct strings of the injury list, 1 <= k <= 3
C22_PureRecords ==
    /\ (call.op = "generate_symptom_combinations" /\ call.ret # Pending) =>
          /\ "ok" \in DOMAIN call.ret
          /\ Len(call.ret.ok) = call.args.num_combinations
          /\ \A i \in DOMAIN call.ret.ok :
                /\ call.ret.ok[i].dosha = call.args.dosha
                /\ DrawnFrom(call.ret.ok[i], call.args.symptoms, 2, 8)
    /\ (call.op = "create_no_match_cases" /\ call.ret # Pending) =>
          /\ "ok" \in DOMAIN call.ret
          /\ Len(call.ret.ok) = call.args.num_cases
          /\ \A i \in DOMAIN call.ret.ok :
                /\ call.ret.ok[i].dosha = "no_match"
                /\ DrawnFrom(call.ret.ok[i], no_match_symptoms, 1, 3)

C22_Witness ==
    /\ call.op = "generate_symptom_combinations"
    /\ "ok" \in DOMAIN call.ret
    /\ Len(call.ret.ok) >= 2
    /\ \E i, j \in DOMAIN call.ret.ok :
          call.ret.ok[i].num_symptoms = 8 /\ call.ret.ok[j].num_symptoms = 2

\* the record has 3 to 7 corpus strings, is labelled with a category, and all
\* the strings its label's corpus does not supply come from one other category
MixedRecord(record) ==
    LET selected == Parse(record.symptoms, vata_symptoms \o pitta_symptoms \o kapha_symptoms, <<>>)
        secondary == {d \in Range(Doshas) \ {record.dosha} :
                         \E i \in DOMAIN selected : selected[i] \in Range(all_symptoms[d])}
    IN /\ record.num_symptoms \in 3..7
       /\ Len(selected) = record.num_symptoms
       /\ record.dosha \in Range(Doshas)
       /\ Cardinality(secondary) = 1
       /\ \A i \in DOMAIN selected :
             selected[i] \in Range(all_symptoms[record.dosha])
                             \cup UNION {Range(all_symptoms[d]) : d \in secondary}

\* how many strings of the record come from the corpus of its label
PrimaryCount(record) ==
    LET selected == Parse(record.symptoms, vata_symptoms \o pitta_symptoms \o kapha_symptoms, <<>>)
    IN Cardinality({i \in DOMAIN selected : selected[i] \in Range(all_symptoms[record.dosha])})

\* C23: in every record of create_mixed_combinations the total is 3 to 7, the
\* label is the primary category, the secondary category is another one, and
\* the strings of the primary category are between 60% and 80% of the total,
\* so strictly more than those of the secondary category
C23_MixedShares ==
    (call.op = "create_mixed_combinations" /\ "ok" \in DOMAIN call.ret) =>
        \A i \in DOMAIN call.ret.ok :
            LET record == call.ret.ok[i]
            IN /\ MixedRecord(record)
               /\ 10 * PrimaryCount(record) >= 6 * record.num_symptoms
               /\ 10 * PrimaryCount(record) <= 8 * record.num_symptoms
               /\ PrimaryCount(record) > record.num_symptoms - PrimaryCount(record)

\* how many rows carry the label, among the mixed rows or among the others
Labelled(rows, dosha, mixed) ==
    Cardinality({i \in DOMAIN rows : rows[i].dosha = dosha /\ rows[i].mixed = mixed})

\* C24: the dataset written by create_comprehensive_dataset has 330 rows: 80
\* pure rows for each of vata, pitta and kapha, 60 mixed rows each labelled
\* with one of the three, and 30 rows labelled no_match; the rows written are
\* the rows collected, each as often as it was collected
C24_DatasetShape ==
    (call.op = "create_comprehensive_dataset" /\ "ok" \in DOMAIN call.ret) =>
        LET collected == DataFrame(all_data([seed |-> call.args.draw, offset |-> 0]))
        IN /\ csv # NoFile
           /\ Len(csv.rows) = 330
           /\ \A d \in Range(Doshas) : Labelled(csv.rows, d, "NaN") = 80
           /\ Labelled(csv.rows, "vata", "True") + Labelled(csv.rows, "pitta", "True")
                + Labelled(csv.rows, "kapha", "True") = 60
           /\ Labelled(csv.rows, "no_match", "NaN") = 30
           /\ Labelled(csv.rows, "no_match", "True") = 0
           /\ Len(collected) = Len(csv.rows)
           /\ \A i \in DOMAIN csv.rows :
                 Cardinality({j \in DOMAIN csv.rows : csv.rows[j] = csv.rows[i]})
                    = Cardinality({j \in DOMAIN collected : collected[j] = csv.rows[i]})

C24_Witness ==
    /\ call.op = "create_comprehensive_dataset"
    /\ "ok" \in DOMAIN call.ret
    /\ csv # NoFile
    /\ csv.rows # DataFrame(all_data([seed |-> call.args.draw, offset |-> 0]))
    /\ csv.rows[1].dosha # "vata"

\* the interactive loop has just handled what input() yielded
Handled == call.op = "cli.py" /\ call.event # NoEvent

\* the line just handled, trimmed and case-folded
Folded == lower(strip(call.event.text))

\* C25: every line typed in the interactive loop is handled by exactly one
\* rule after trimming and case-folding: quit, exit and q end the loop; help,
\* h, info and doshas print and prompt again without predicting; an empty line
\* and a line without a non-blank item prompt again without predicting; any
\* other line calls predict once with the non-empty list of its trimmed,
\* lower-cased items. The loop ends only on quit or on the interrupt key, and
\* an exception raised while a line is handled does not end it
C25_OneRulePerLine ==
    /\ (Handled /\ call.event.kind = "line") =>
          IF Folded \in QuitWords
          THEN call.pc = "returned" /\ call.predicted = <<>>
          ELSE IF Folded \in HelpWords \cup InfoWords
          THEN call.pc = "prompt" /\ call.predicted = <<>>
               /\ call.printed \in {"EXAMPLE SYMPTOM COMBINATIONS", "print_dosha_info"}
          ELSE IF \A piece \in Range(split(Folded, ",", <<>>, <<>>)) : strip(piece) = <<>>
          THEN call.pc = "prompt" /\ call.predicted = <<>>
               /\ call.printed \in {"Please enter some symptoms.", "Please enter valid symptoms."}
          ELSE /\ call.pc = "prompt"
               /\ Len(call.predicted) = 1
               /\ call.predicted[1] # <<>>
               /\ \A i \in DOMAIN call.predicted[1] :
                     LET item == call.predicted[1][i]
                     IN /\ item # <<>>
                        /\ strip(item) = item
                        /\ lower(item) = item
                        /\ \A k \in DOMAIN item : item[k] # ","
               /\ call.predicted[1] = SelectSeq([i \in DOMAIN split(Folded, ",", <<>>, <<>>) |->
                                                    strip(split(Folded, ",", <<>>, <<>>)[i])],
                                                LAMBDA item : item # <<>>)
    /\ (Handled /\ call.pc = "returned") =>
          \/ call.event = KeyboardInterrupt
          \/ call.event.kind = "line" /\ Folded \in QuitWords
    /\ (Handled /\ call.event = EOFError) => call.pc = "prompt" /\ call.predicted = <<>>
    /\ (Handled /\ call.printed = "Error") => call.pc = "prompt"

C25_Witness ==
    /\ Handled
    /\ call.event.kind = "line"
    /\ call.pc = "prompt"
    /\ Len(call.predicted) = 1
    /\ Len(call.predicted[1]) = 2
    /\ call.event.text # Folded

\* C30: main looks at --version, then at --info, and returns on either before
\* a model is loaded; otherwise it loads the model and, when loading failed,
\* reports and returns without interactive mode and without predicting; with
\* the model loaded --interactive comes before --symptoms, and with neither
\* interactive mode starts after the help text. predict is never called on a
\* predictor that is not loaded
C30_DispatchOrder ==
    (call.op = "cli.py" /\ call.pc # "main") =>
        /\ IF call.args.version
           THEN call.did = <<"version">> /\ call.pc = "returned"
                /\ classifier = UnfittedClassifier /\ vectorizer = UnfittedVectorizer
                /\ call.predicted = <<>>
           ELSE IF call.args.info
           THEN call.did = <<"info">> /\ call.pc = "returned"
                /\ classifier = UnfittedClassifier /\ vectorizer = UnfittedVectorizer
                /\ call.predicted = <<>>
           ELSE /\ call.did[1] = "load_model"
                /\ call.pc # "loaded" =>
                      IF ~model_loaded
                      THEN call.did = <<"load_model", "model_not_found">>
                           /\ call.pc = "returned" /\ call.predicted = <<>>
                      ELSE IF call.args.interactive
                      THEN call.did = <<"load_model", "interactive_mode">>
                      ELSE IF call.args.symptoms.given
                      THEN call.did = <<"load_model", "predict_from_args">>
                           /\ call.pc = "returned"
                           /\ call.predicted =
                                 <<[i \in DOMAIN call.args.symptoms.list |->
                                       lower(call.args.symptoms.list[i])]>>
                      ELSE call.did = <<"load_model", "print_help", "interactive_mode">>
        /\ call.predicted # <<>> => model_loaded

C30_Witness ==
    /\ call.op = "cli.py"
    /\ call.args.interactive
    /\ call.args.symptoms.given
    /\ model_loaded
    /\ call.did = <<"load_model", "interactive_mode">>
    /\ call.pc = "prompt"
    /\ call.predicted # <<>>

\* C28: train_model called while the dataset file is absent reports it and
\* returns; the vectorizer, the classifier, model_loaded and both artifact
\* files are what they were before the call
C28_TrainWithoutDatasetChangesNothing ==
    [][(call = Idle /\ call'.op = "train_model" /\ csv = NoFile) =>
          /\ call'.ret = [status |-> "Dataset not found. Please run dataset_creator.py first."]
          /\ vectorizer' = vectorizer
          /\ classifier' = classifier
          /\ model_loaded' = model_loaded
          /\ classifier_pkl' = classifier_pkl
          /\ vectorizer_pkl' = vectorizer_pkl
          /\ csv' = NoFile]_vars

C28_Witness ==
    /\ call.op = "train_model"
    /\ call.ret = [status |-> "Dataset not found. Please run dataset_creator.py first."]
    /\ call.was_loaded
    /\ model_loaded
    /\ classifier.fitted
    /\ classifier_pkl # NoFile
    /\ vectorizer_pkl = NoFile

\* C29: a load_model call that fails because an artifact file is missing
\* leaves the classifier and the vectorizer of the predictor as they were;
\* the two are replaced together or not at all
C29_LoadAllOrNothing ==
    [][(call = Idle /\ call'.op = "load_model") =>
          /\ call'.ret.status = FilesNotFound =>
                classifier' = classifier /\ vectorizer' = vectorizer
          /\ classifier' # classifier =>
                classifier' = classifier_pkl /\ vectorizer' = vectorizer_pkl /\ model_loaded']_vars

====
